---- MODULE Spec2Model ----
(***************************************************************************)
(* Slot migration of redisctl: the reshard, rebalance and del-node drain   *)
(* flows against a cluster in which every node keeps its own slot table    *)
(* and its own MIGRATING / IMPORTING markers.                              *)
(*   Spec         one invocation of reshard, rebalance or del-node         *)
(*   SpecReshard  reshard invocations one after another                    *)
(*   SpecRebalance a reshard, then rebalance with its safety validation    *)
(*   SpecPlan     the rebalance planner on an arbitrary slot distribution  *)
(*   SpecNewNodes add-node, and create up to its MEET fan-out              *)
(*   SpecCreate   create after its preflight                               *)
(*   SpecJoin     one poll of the convergence wait                         *)
(*   SpecDelNode  del-node from its validation to its final check          *)
(*   SpecManager  concurrent Connect calls on a ClusterManager, and Close   *)
(*   SpecNormalize normalizeClusterAddress applied once and twice           *)
(*   SpecLoader   the bulk loader; SpecLoaderFair adds fair scheduling      *)
(***************************************************************************)
EXTENDS Integers, Sequences, FiniteSets, TLC

\* ---------------------------------------------------------------- bounds
NumNodes == 3          \* cluster members, all primaries
NumSlots == 3          \* hash slots of the scaled-down cluster
MaxKeys == 2           \* keys a slot holds on its source when a move starts
MaxCmds == 1           \* SpecReshard: reshard invocations after create
pipelineSize == 1      \* --pipeline value of reshard / rebalance
PlanMasters == 3       \* SpecPlan: masters handed to the planner
PlanSlots == 7         \* SpecPlan: size of the slot space (16384 scaled)
OtherMembers == 1      \* SpecNewNodes: members of E's cluster besides E
CreateNodes == 3       \* SpecNewNodes: addresses given to create
SigNodes == 2          \* SpecJoin: nodes of the polled cluster
MaxCreateNodes == 7    \* SpecCreate: most addresses given to create
MaxReplicas == 1       \* SpecCreate: largest --replicas
NumWorkers == 2        \* SpecManager: goroutines calling Connect
NumAddresses == 2      \* SpecManager: addresses they connect to
MaxCalls == 1          \* SpecManager: Connect calls of one goroutine
MaxAddressLen == 5     \* SpecNormalize: pieces of an address string
MaxTotalKeys == 3      \* SpecLoader: largest --num-keys
MaxWorkerCount == 2    \* SpecLoader: most workers of the bulk loader
MaxBatchSize == 2      \* SpecLoader: largest pipeline batch

\* ------------------------------------------------------ program constants
batchSize == 500       \* del-node: keys fetched per CLUSTER GETKEYSINSLOT
maxRetries == 3        \* del-node: MIGRATE attempts per key
threshold == 5         \* rebalance: default of --threshold, in percent
addNodeRetries == 5    \* add-node: CLUSTER REPLICATE attempts
verifyRetries == 5     \* add-node: searches of E's view for N's id
totalSlots == 16384    \* create: the hash slots of a cluster

Nodes == 1..NumNodes
Slots == 0..(NumSlots - 1)

VARIABLES
    view,           \* view[n][s]: the owner of slot s in node n's table
    migrating,      \* migrating[n]: slots carrying a MIGRATING marker on n
    importing,      \* importing[n]: slots carrying an IMPORTING marker on n
    srcKeys,        \* keys of the slot being moved still held by the source
    flow,           \* "none" | "reshard" | "rebalance" | "delnode"
    plan,           \* the moves of the command: <<[from, to, slots]>>
    item,           \* index of the running plan item
    idx,            \* index of the running slot inside the item
    pc,             \* position of the command
    batch,          \* keys of the fetched batch not yet migrated
    attempts,       \* MIGRATE attempts made for the current key
    lastErr,        \* "none" | "net" | "other": error of the last MIGRATE
    propIdx,        \* next node of the propagation loop
    successCount,   \* nodes that accepted SETSLOT NODE in the propagation
    migratedSlots,  \* slots the command has recorded as moved
    result,         \* "none" | "ok" | "failed"
    reported,       \* slots named as moved by the failure report
    ncmds,          \* commands started so far
    \* history of the running command, kept for the properties
    okSteps,        \* steps of the running slot that have succeeded
    lastCmd,        \* the last cluster command issued
    visited,        \* nodes the propagation loop of the running slot tried
    accepted,       \* nodes that accepted SETSLOT NODE in that loop
    completed,      \* <<slot, target>> finalized on source and target
    marked,         \* slots this command put a marker on, not yet finalized
    failStep,       \* step at which the command failed
    onlyReshardOk,  \* every command so far was a reshard that succeeded
    \* the other commands
    planner,        \* the locals of generateRebalancePlan
    addnode,        \* the add-node command and the nodes it talks to
    create,         \* the create command
    join,           \* one poll of waitForClusterJoin
    delnode,        \* the del-node command around its slot moves
    manager,        \* the ClusterManager and the workers calling it
    loader,         \* the bulk loader: producer, workers, closer, collector
    normalize,      \* an address handed to normalizeClusterAddress
    request         \* the last reshard or rebalance asked for, and the replies

cluster == <<view, migrating, importing>>
vars == <<view, migrating, importing, srcKeys, flow, plan, item, idx, pc,
          batch, attempts, lastErr, propIdx, successCount, migratedSlots,
          result, reported, ncmds, okSteps, lastCmd, visited, accepted,
          completed, marked, failStep, onlyReshardOk, planner, addnode,
          create, join, delnode, manager, loader, request, normalize>>

\* the cluster and the migration command, and what they never touch
migrationVars ==
    <<view, migrating, importing, srcKeys, flow, plan, item, idx, pc,
      batch, attempts, lastErr, propIdx, successCount, migratedSlots,
      result, reported, ncmds, okSteps, lastCmd, visited, accepted,
      completed, marked, failStep, onlyReshardOk>>
outsideReshard ==
    <<planner, addnode, create, join, delnode, manager, loader, normalize>>
outsideMigration ==
    <<planner, addnode, create, join, delnode, manager, loader, request,
      normalize>>

NoCmd == [kind |-> "none", node |-> 0, slot |-> 0, ok |-> TRUE]

Min(a, b) == IF a < b THEN a ELSE b

\* ------------------------------------------------------------- helpers
\* the slots node c's table gives to node n (the slot ranges of n's line)
SlotsInView(c, n) == {s \in Slots : view[c][s] = n}

\* what a primary itself claims to own
OwnSlots(n) == SlotsInView(n, n)

RECURSIVE Ascending(_)
Ascending(S) ==
    IF S = {} THEN <<>>
    ELSE LET m == CHOOSE x \in S : \A y \in S : x <= y
         IN  <<m>> \o Ascending(S \ {m})

Range(q) == {q[i] : i \in 1..Len(q)}

countSlots(slots) == Cardinality(slots)

\* the first count slots of the source's ranges, in ascending order
selectSlotsToMove(availableSlots, count) ==
    SubSeq(Ascending(availableSlots), 1,
           Min(count, Cardinality(availableSlots)))

\* variant: the first of the other masters is handed every slot
reshardBeforeRemovalGroupsFirst(T, masters, slots) ==
    <<[from |-> T, to |-> masters[1], slots |-> slots]>>

\* del-node: the slices of T's slots handed to the other masters
reshardBeforeRemovalGroups(T, masters, slots) ==
    LET slotsPerMaster == Len(slots) \div Len(masters)
        remainder == Len(slots) % Len(masters)
        slotsToMove(i) == slotsPerMaster + (IF i - 1 < remainder THEN 1 ELSE 0)
        slotIndex(i) == (i - 1) * slotsPerMaster + Min(i - 1, remainder)
        group(i) == [from |-> T, to |-> masters[i],
                     slots |-> SubSeq(slots, slotIndex(i) + 1,
                                      slotIndex(i) + slotsToMove(i))]
        all == [i \in 1..Len(masters) |-> group(i)]
    IN  SelectSeq(all, LAMBDA g : Len(g.slots) > 0)

\* the other masters in the order of the CLUSTER NODES reply
getOtherMasters(excludeNodeID) ==
    LET others == Nodes \ {excludeNodeID}
    IN  {q \in [1..Cardinality(others) -> others] :
            \A i, j \in 1..Cardinality(others) : i # j => q[i] # q[j]}

\* the share of one master: 16384 / len(masters), the slot space scaled
\* to total
idealSlots(total, n) == total \div n

\* the masters of node c's CLUSTER NODES reply, sorted most slots first
\* (the sort is not stable: masters with equal counts come in any order)
sortedMasters(c) ==
    {ids \in [1..NumNodes -> Nodes] :
        /\ \A i, j \in 1..NumNodes : i # j => ids[i] # ids[j]
        /\ \A i \in 1..(NumNodes - 1) :
              countSlots(SlotsInView(c, ids[i]))
                  >= countSlots(SlotsInView(c, ids[i + 1]))}

\* the indices of the sorted masters above / below the ideal count
donorsOf(ideal, slotsOf) ==
    SelectSeq([i \in 1..Len(slotsOf) |-> i],
              LAMBDA i : Len(slotsOf[i]) > ideal)
receiversOf(ideal, slotsOf) ==
    SelectSeq([i \in 1..Len(slotsOf) |-> i],
              LAMBDA i : Len(slotsOf[i]) < ideal)

\* the planner's locals before the first iteration of the pairing loop
pairingStart(ideal, ids, slotsOf) ==
    [ideal |-> ideal, ids |-> ids, slotsOf |-> slotsOf,
     donors |-> donorsOf(ideal, slotsOf),
     receivers |-> receiversOf(ideal, slotsOf),
     donorIdx |-> 1, receiverIdx |-> 1, plan |-> <<>>, done |-> FALSE]

\* variant: the larger of excess and deficit is moved
slotsToMoveLarger(excess, deficit) ==
    IF excess > deficit THEN excess ELSE deficit

\* slots one pairing moves: the minimum of excess and deficit
slotsToMoveOf(excess, deficit) == Min(excess, deficit)

\* variant: donor and receiver are written into the wrong fields
RebalancePlanSwapped(donorID, receiverID, slotsToTransfer) ==
    [from |-> receiverID, to |-> donorID, slots |-> slotsToTransfer]

\* one item of the plan
RebalancePlan(donorID, receiverID, slotsToTransfer) ==
    [from |-> donorID, to |-> receiverID, slots |-> slotsToTransfer]

\* the loop condition
pairingGoesOn(st) ==
    /\ st.donorIdx <= Len(st.donors)
    /\ st.receiverIdx <= Len(st.receivers)

\* one iteration of the pairing loop: the current donor gives the current
\* receiver the smaller of its excess and the receiver's deficit, taken
\* from the end of its slot list
pairDonors(st) ==
    IF ~pairingGoesOn(st) THEN [st EXCEPT !.done = TRUE]
    ELSE
      LET d == st.donors[st.donorIdx]
          r == st.receivers[st.receiverIdx]
          excess == Len(st.slotsOf[d]) - st.ideal
          deficit == st.ideal - Len(st.slotsOf[r])
          slotsToMove == slotsToMoveOf(excess, deficit)
          slotsToTransfer ==
              [i \in 1..slotsToMove |->
                  st.slotsOf[d][Len(st.slotsOf[d]) + 1 - i]]
          after ==
              [st.slotsOf EXCEPT
                  ![d] = SubSeq(@, 1, Len(@) - slotsToMove),
                  ![r] = @ \o slotsToTransfer]
      IN  IF slotsToMove <= 0 THEN [st EXCEPT !.done = TRUE]
          ELSE [st EXCEPT
                  !.plan = Append(@, RebalancePlan(st.ids[d], st.ids[r],
                                                   slotsToTransfer)),
                  !.slotsOf = after,
                  !.donorIdx = IF Len(after[d]) <= st.ideal
                               THEN @ + 1 ELSE @,
                  !.receiverIdx = IF Len(after[r]) >= st.ideal
                                  THEN @ + 1 ELSE @]

\* the loop run to its end
RECURSIVE pairingLoop(_)
pairingLoop(st) == IF st.done THEN st ELSE pairingLoop(pairDonors(st))

\* the plan for the masters ids, their slots read from node c's table
generateRebalancePlan(c, ids) ==
    pairingLoop(
        pairingStart(idealSlots(NumSlots, NumNodes), ids,
                     [i \in 1..NumNodes |->
                         Ascending(SlotsInView(c, ids[i]))])).plan

\* the running move
fromNodeID == plan[item].from
toNodeID == plan[item].to
slot == plan[item].slots[idx]

\* order of the two preparation steps
FirstStep(f) == IF f = "delnode" THEN "importing" ELSE "migrating"
AfterMigrating(f) == IF f = "delnode" THEN "getkeys" ELSE "importing"
AfterImporting(f) == IF f = "delnode" THEN "migrating" ELSE "getkeys"

\* keys one CLUSTER GETKEYSINSLOT returns
KeysPerQuery(f) == IF f = "delnode" THEN batchSize ELSE pipelineSize

\* flows whose engine publishes the new owner to the whole cluster
Propagates(f) == f \in {"reshard", "delnode"}

\* variant: the loop goes on with the next slot instead of returning
OnSlotErrorContinue == "next"

\* where an error of a slot step sends the command: the error is returned
OnSlotError == "rollback"

\* variant: the key loop also stops on a reply of one key
DrainedTooEarly(n) == n <= 1

\* the key loop ends when the source returns no key
Drained(n) == n = 0

\* variant: every MIGRATE error is retried
RetryableAnyError(f, err) == f = "delnode"

\* a MIGRATE error that the del-node key loop retries
Retryable(f, err) == f = "delnode" /\ err = "net"

\* attempts one key gets
MaxAttempts(f) == IF f = "delnode" THEN maxRetries ELSE 1

\* variant: the propagation needs every node to accept
PropagationOkAll(n) == n = NumNodes

\* verdict of the propagation loop
PropagationOk(n) == n > 0

\* the layout create gives k masters: contiguous ranges, sizes within one
CreateSize(k, i) ==
    (NumSlots \div k) + (IF i - 1 < NumSlots % k THEN 1 ELSE 0)
CreateStart(k, i) ==
    (i - 1) * (NumSlots \div k) + Min(i - 1, NumSlots % k)
CreateOwner(k, s) ==
    CHOOSE i \in 1..k :
        CreateStart(k, i) <= s /\ s < CreateStart(k, i) + CreateSize(k, i)

\* a command that is not part of the behaviour
notRunning == [pc |-> "off"]

\* a settled cluster: every node has the same table, in which the first k
\* nodes share the slots as create lays them out and the others are empty
\* masters; no move is under way and no migration command has run
Settled(k) ==
    /\ view = [n \in Nodes |-> [s \in Slots |-> CreateOwner(k, s)]]
    /\ migrating = [n \in Nodes |-> {}]
    /\ importing = [n \in Nodes |-> {}]
    /\ srcKeys = 0
    /\ flow = "none"
    /\ plan = <<>>
    /\ item = 0
    /\ idx = 0
    /\ pc = "idle"
    /\ batch = 0
    /\ attempts = 0
    /\ lastErr = "none"
    /\ propIdx = 0
    /\ successCount = 0
    /\ migratedSlots = {}
    /\ result = "none"
    /\ reported = {}
    /\ ncmds = 0
    /\ okSteps = {}
    /\ lastCmd = NoCmd
    /\ visited = {}
    /\ accepted = {}
    /\ completed = {}
    /\ marked = {}
    /\ failStep = "none"
    /\ onlyReshardOk = TRUE

\* ------------------------------------------------------------------ Init
\* the cluster a single command finds: any number of the nodes hold slots
Init ==
    /\ \E k \in Nodes : Settled(k)
    /\ planner = notRunning
    /\ addnode = notRunning
    /\ create = notRunning
    /\ join = notRunning
    /\ delnode = notRunning
    /\ manager = notRunning
    /\ loader = notRunning
    /\ request = notRunning
    /\ normalize = notRunning

\* the cluster right after create over all the nodes
InitReshard ==
    /\ Settled(NumNodes)
    /\ planner = notRunning
    /\ addnode = notRunning
    /\ create = notRunning
    /\ join = notRunning
    /\ delnode = notRunning
    /\ manager = notRunning
    /\ loader = notRunning
    /\ request = notRunning
    /\ normalize = notRunning

\* a command starts with the moves p
Start(f, p) ==
    /\ flow' = f
    /\ plan' = p
    /\ item' = 1
    /\ idx' = 1
    /\ pc' = "connect"
    /\ batch' = 0
    /\ attempts' = 0
    /\ lastErr' = "none"
    /\ propIdx' = 0
    /\ successCount' = 0
    /\ migratedSlots' = {}
    /\ result' = "none"
    /\ reported' = {}
    /\ ncmds' = ncmds + 1
    /\ okSteps' = {}
    /\ lastCmd' = NoCmd
    /\ visited' = {}
    /\ accepted' = {}
    /\ completed' = {}
    /\ marked' = {}
    /\ failStep' = "none"
    /\ srcKeys' = 0
    /\ UNCHANGED cluster


\* a command is refused before it touches the cluster
Reject ==
    /\ result' = "failed"
    /\ ncmds' = ncmds + 1
    /\ flow' = "none"
    /\ plan' = <<>>
    /\ item' = 0
    /\ idx' = 0
    /\ pc' = "idle"
    /\ batch' = 0
    /\ attempts' = 0
    /\ lastErr' = "none"
    /\ propIdx' = 0
    /\ successCount' = 0
    /\ migratedSlots' = {}
    /\ reported' = {}
    /\ okSteps' = {}
    /\ lastCmd' = NoCmd
    /\ visited' = {}
    /\ accepted' = {}
    /\ completed' = {}
    /\ marked' = {}
    /\ failStep' = "validate"
    /\ onlyReshardOk' = FALSE
    /\ srcKeys' = 0
    /\ UNCHANGED cluster

\* the effect of an accepted CLUSTER SETSLOT s NODE owner on node n
ApplySetSlotNode(n, s, owner) ==
    /\ view' = [view EXCEPT ![n][s] = owner]
    /\ migrating' = [migrating EXCEPT ![n] = @ \ {s}]
    /\ importing' = [importing EXCEPT ![n] = IF n = owner THEN @ \ {s} ELSE @]

Fail(step) ==
    /\ pc' = OnSlotError
    /\ failStep' = step

\* ------------------------------------------------------- command entries
\* an id that no line of CLUSTER NODES carries
noNode == 0

\* the replies of CLUSTER INFO as the commands read them: the connection
\* or the command failed, or cluster_state is fail, or it is ok
infoReplies == {"err", "fail", "ok"}

\* the role flag on a node's line of CLUSTER NODES
roleFlags == {"master", "slave"}

isMasterNode(flags) == flags = "master"

\* the checks of runReshard with the comparison of the two ids left out
reshardPreconditionsSameNode(k, info, a, b, fromFlags, toFlags, count) ==
    /\ k > 0
    /\ info = "ok"
    /\ a # noNode
    /\ isMasterNode(fromFlags)
    /\ count >= k
    /\ b # noNode
    /\ isMasterNode(toFlags)

\* the checks of runReshard, in the order of the code; the first that
\* fails returns the error
reshardPreconditions(k, info, a, b, fromFlags, toFlags, count) ==
    /\ k > 0
    /\ info = "ok"
    /\ a # noNode
    /\ isMasterNode(fromFlags)
    /\ count >= k
    /\ b # noNode
    /\ isMasterNode(toFlags)
    /\ a # b

\* reshard --from a --to b --slots k, through cluster node c; a line with
\* the slave flag carries no slots
reshardInvocation ==
    \E c \in Nodes, a \in Nodes \cup {noNode}, b \in Nodes \cup {noNode},
       k \in 0..NumSlots, info \in infoReplies,
       fromFlags \in roleFlags, toFlags \in roleFlags :
        LET owned == IF a = noNode THEN {} ELSE SlotsInView(c, a)
            asked == [pc |-> "asked", from |-> a, to |-> b, slots |-> k,
                      info |-> info, fromFlags |-> fromFlags,
                      toFlags |-> toFlags,
                      owned |-> owned]
        IN  /\ (a # noNode /\ fromFlags = "slave") => owned = {}
            /\ (b # noNode /\ toFlags = "slave")
                  => SlotsInView(c, b) = {}
            /\ a = b => fromFlags = toFlags
            /\ IF reshardPreconditions(k, info, a, b, fromFlags, toFlags,
                                       countSlots(owned))
               THEN /\ Start("reshard",
                             <<[from |-> a, to |-> b,
                                slots |-> selectSlotsToMove(owned, k)]>>)
                    /\ request' = [asked EXCEPT !.pc = "accepted"]
                    /\ UNCHANGED onlyReshardOk
               ELSE /\ Reject
                    /\ request' = [asked EXCEPT !.pc = "refused"]

\* the one command of the behaviour is a reshard
runReshard ==
    /\ pc = "idle"
    /\ ncmds = 0
    /\ reshardInvocation
    /\ UNCHANGED outsideReshard

\* the operator runs reshard again after the previous one has returned
runReshardInSequence ==
    /\ pc = "idle"
    /\ ncmds < MaxCmds
    /\ reshardInvocation
    /\ UNCHANGED outsideReshard

\* rebalance executing the plan computed from node c's table, the
\* threshold being low enough; with an empty plan the command returns
\* without touching the cluster
executeRebalancePlan ==
    /\ pc = "idle"
    /\ ncmds = 0
    /\ \E c \in Nodes :
        \E ids \in sortedMasters(c) :
            /\ generateRebalancePlan(c, ids) # <<>>
            /\ Start("rebalance", generateRebalancePlan(c, ids))
            /\ onlyReshardOk' = FALSE
    /\ UNCHANGED outsideMigration

\* a rebalance that returns before executeRebalancePlan: the plan p, if
\* one was computed, has been displayed
returnWithoutExecuting(p, res) ==
    /\ flow' = "dryrun"
    /\ plan' = p
    /\ result' = res
    /\ ncmds' = ncmds + 1
    /\ UNCHANGED <<cluster, srcKeys, item, idx, pc, batch, attempts, lastErr,
                   propIdx, successCount, migratedSlots, reported, okSteps,
                   lastCmd, visited, accepted, completed, marked, failStep,
                   onlyReshardOk>>

\* variant: the dry-run flag is not looked at and the plan is executed
dryRunIgnored(p) ==
    IF p = <<>> THEN returnWithoutExecuting(p, "ok")
    ELSE /\ Start("dryrun", p)
         /\ UNCHANGED onlyReshardOk

\* dryRun is set: the plan is displayed and the command returns
dryRunBranch(p) == returnWithoutExecuting(p, "ok")

\* rebalance --dry-run through node c: the cluster is pinged and read, then
\* the plan is computed and shown
runRebalanceDryRun ==
    /\ pc = "idle"
    /\ ncmds = 0
    /\ \E c \in Nodes :
        \E ids \in sortedMasters(c) :
            \E reachable \in BOOLEAN :
                IF reachable
                THEN dryRunBranch(generateRebalancePlan(c, ids))
                ELSE returnWithoutExecuting(<<>>, "failed")
    /\ UNCHANGED outsideMigration

\* del-node of the primary T, which owns slots in node c's table
reshardBeforeRemoval ==
    /\ pc = "idle"
    /\ ncmds = 0
    /\ \E c \in Nodes, T \in Nodes :
        /\ SlotsInView(c, T) # {}
        /\ \E masters \in getOtherMasters(T) :
            /\ Len(masters) >= 2
            /\ Start("delnode",
                     reshardBeforeRemovalGroups(T, masters,
                                                Ascending(SlotsInView(c, T))))
            /\ onlyReshardOk' = FALSE
    /\ UNCHANGED outsideMigration

\* ------------------------------------------------------- steps of a move
\* the clients of source and target are opened for the item
Connect ==
    /\ pc = "connect"
    /\ \E ok \in BOOLEAN :
        IF ok
        THEN /\ pc' = FirstStep(flow)
             /\ \E n \in 0..MaxKeys : srcKeys' = n
             /\ UNCHANGED failStep
        ELSE /\ pc' = "rollback"
             /\ failStep' = "connect"
             /\ UNCHANGED srcKeys
    /\ okSteps' = {}
    /\ visited' = {}
    /\ accepted' = {}
    /\ UNCHANGED <<cluster, flow, plan, item, idx, batch, attempts, lastErr,
                   propIdx, successCount, migratedSlots, result, reported,
                   ncmds, lastCmd, completed, marked, onlyReshardOk>>
    /\ UNCHANGED outsideMigration

\* CLUSTER SETSLOT slot MIGRATING target, on the source
SetSlotMigrating ==
    /\ pc = "migrating"
    /\ \E ok \in BOOLEAN :
        /\ ok => view[fromNodeID][slot] = fromNodeID
        /\ lastCmd' = [kind |-> "MIGRATING", node |-> fromNodeID,
                       slot |-> slot, ok |-> ok]
        /\ IF ok
           THEN /\ migrating' = [migrating EXCEPT ![fromNodeID] = @ \cup {slot}]
                /\ okSteps' = okSteps \cup {"MIGRATING"}
                /\ marked' = marked \cup {slot}
                /\ pc' = AfterMigrating(flow)
                /\ UNCHANGED failStep
           ELSE /\ Fail("MIGRATING")
                /\ UNCHANGED <<migrating, okSteps, marked>>
    /\ UNCHANGED <<view, importing, srcKeys, flow, plan, item, idx, batch,
                   attempts, lastErr, propIdx, successCount, migratedSlots,
                   result, reported, ncmds, visited, accepted, completed,
                   onlyReshardOk>>
    /\ UNCHANGED outsideMigration

\* CLUSTER SETSLOT slot IMPORTING source, on the target
SetSlotImporting ==
    /\ pc = "importing"
    /\ \E ok \in BOOLEAN :
        /\ ok => view[toNodeID][slot] # toNodeID
        /\ lastCmd' = [kind |-> "IMPORTING", node |-> toNodeID,
                       slot |-> slot, ok |-> ok]
        /\ IF ok
           THEN /\ importing' = [importing EXCEPT ![toNodeID] = @ \cup {slot}]
                /\ okSteps' = okSteps \cup {"IMPORTING"}
                /\ marked' = marked \cup {slot}
                /\ pc' = AfterImporting(flow)
                /\ UNCHANGED failStep
           ELSE /\ Fail("IMPORTING")
                /\ UNCHANGED <<importing, okSteps, marked>>
    /\ UNCHANGED <<view, migrating, srcKeys, flow, plan, item, idx, batch,
                   attempts, lastErr, propIdx, successCount, migratedSlots,
                   result, reported, ncmds, visited, accepted, completed,
                   onlyReshardOk>>
    /\ UNCHANGED outsideMigration

\* CLUSTER GETKEYSINSLOT slot count, on the source
ClusterGetKeysInSlot ==
    /\ pc = "getkeys"
    /\ \E ok \in BOOLEAN :
        /\ lastCmd' = [kind |-> "GETKEYS", node |-> fromNodeID,
                       slot |-> slot, ok |-> ok]
        /\ IF ok
           THEN LET keys == Min(srcKeys, KeysPerQuery(flow))
                IN  /\ IF Drained(keys)
                       THEN /\ pc' = "nodeSrc"
                            /\ batch' = 0
                       ELSE /\ pc' = "migrate"
                            /\ batch' = keys
                    /\ okSteps' = IF keys = 0 THEN okSteps \cup {"DRAINED"}
                                  ELSE okSteps
                    /\ UNCHANGED failStep
           ELSE /\ Fail("GETKEYS")
                /\ UNCHANGED <<batch, okSteps>>
    /\ attempts' = 0
    /\ lastErr' = "none"
    /\ UNCHANGED <<cluster, srcKeys, flow, plan, item, idx, propIdx,
                   successCount, migratedSlots, result, reported, ncmds,
                   visited, accepted, completed, marked, onlyReshardOk>>
    /\ UNCHANGED outsideMigration

\* one MIGRATE of the next key of the batch (reshard, del-node)
MigrateKey ==
    /\ pc = "migrate"
    /\ flow # "rebalance"
    /\ lastErr = "none" \/ attempts < MaxAttempts(flow)
    /\ \E e \in {"none", "net", "other"} :
        /\ attempts' = (IF lastErr = "none" THEN 1 ELSE attempts + 1)
        /\ lastErr' = e
        /\ lastCmd' = [kind |-> "MIGRATE", node |-> fromNodeID,
                       slot |-> slot, ok |-> (e = "none")]
        /\ IF e = "none"
           THEN /\ srcKeys' = srcKeys - 1
                /\ batch' = batch - 1
                /\ okSteps' = okSteps \cup {"KEYS"}
                /\ pc' = IF batch = 1 THEN "getkeys" ELSE "migrate"
                /\ UNCHANGED failStep
           ELSE /\ UNCHANGED <<srcKeys, batch, okSteps>>
                /\ IF Retryable(flow, e) /\ attempts' < MaxAttempts(flow)
                   THEN /\ pc' = "migrate"
                        /\ UNCHANGED failStep
                   ELSE Fail("MIGRATE")
    /\ UNCHANGED <<cluster, flow, plan, item, idx, propIdx, successCount,
                   migratedSlots, result, reported, ncmds, visited, accepted,
                   completed, marked, onlyReshardOk>>
    /\ UNCHANGED outsideMigration

\* the MIGRATEs of the whole batch in one pipeline (rebalance)
migrateKeysBatch ==
    /\ pc = "migrate"
    /\ flow = "rebalance"
    /\ \E moved \in 0..batch :
        /\ srcKeys' = srcKeys - moved
        /\ batch' = batch - moved
        /\ lastCmd' = [kind |-> "MIGRATE", node |-> fromNodeID,
                       slot |-> slot, ok |-> (moved = batch)]
        /\ attempts' = 1
        /\ okSteps' = IF moved > 0 THEN okSteps \cup {"KEYS"} ELSE okSteps
        /\ IF moved = batch
           THEN /\ pc' = "getkeys"
                /\ lastErr' = "none"
                /\ UNCHANGED failStep
           ELSE /\ \E e \in {"net", "other"} : lastErr' = e
                /\ Fail("MIGRATE")
    /\ UNCHANGED <<cluster, flow, plan, item, idx, propIdx, successCount,
                   migratedSlots, result, reported, ncmds, visited, accepted,
                   completed, marked, onlyReshardOk>>
    /\ UNCHANGED outsideMigration

\* CLUSTER SETSLOT slot NODE target, on the source
SetSlotNodeSource ==
    /\ pc = "nodeSrc"
    /\ \E ok \in BOOLEAN :
        /\ lastCmd' = [kind |-> "NODE", node |-> fromNodeID,
                       slot |-> slot, ok |-> ok]
        /\ IF ok
           THEN /\ ApplySetSlotNode(fromNodeID, slot, toNodeID)
                /\ okSteps' = okSteps \cup {"NODE_SRC"}
                /\ pc' = "nodeDst"
                /\ UNCHANGED failStep
           ELSE /\ Fail("NODE_SRC")
                /\ UNCHANGED <<cluster, okSteps>>
    /\ UNCHANGED <<srcKeys, flow, plan, item, idx, batch, attempts, lastErr,
                   propIdx, successCount, migratedSlots, result, reported,
                   ncmds, visited, accepted, completed, marked, onlyReshardOk>>
    /\ UNCHANGED outsideMigration

\* variant: the target is never told that it owns the slot
SetSlotNodeTargetOmitted ==
    /\ pc = "nodeDst"
    /\ pc' = IF Propagates(flow) THEN "propList" ELSE "next"
    /\ completed' = completed \cup {<<slot, toNodeID>>}
    /\ marked' = marked \ {slot}
    /\ UNCHANGED <<cluster, srcKeys, flow, plan, item, idx, batch, attempts,
                   lastErr, propIdx, successCount, migratedSlots, result,
                   reported, ncmds, okSteps, lastCmd, visited, accepted,
                   failStep, onlyReshardOk>>
    /\ UNCHANGED outsideMigration

\* CLUSTER SETSLOT slot NODE target, on the target
SetSlotNodeTarget ==
    /\ pc = "nodeDst"
    /\ \E ok \in BOOLEAN :
        /\ lastCmd' = [kind |-> "NODE", node |-> toNodeID,
                       slot |-> slot, ok |-> ok]
        /\ IF ok
           THEN /\ ApplySetSlotNode(toNodeID, slot, toNodeID)
                /\ okSteps' = okSteps \cup {"NODE_DST"}
                /\ completed' = completed \cup {<<slot, toNodeID>>}
                /\ marked' = marked \ {slot}
                /\ pc' = IF Propagates(flow) THEN "propList" ELSE "next"
                /\ UNCHANGED failStep
           ELSE /\ Fail("NODE_DST")
                /\ UNCHANGED <<cluster, okSteps, completed, marked>>
    /\ UNCHANGED <<srcKeys, flow, plan, item, idx, batch, attempts, lastErr,
                   propIdx, successCount, migratedSlots, result, reported,
                   ncmds, visited, accepted, onlyReshardOk>>
    /\ UNCHANGED outsideMigration


\* ------------------------------------------ propagation of the new owner
\* the member list is fetched (CLUSTER NODES)
GetClusterNodes ==
    /\ pc = "propList"
    /\ \E ok \in BOOLEAN :
        IF ok
        THEN /\ pc' = "propNode"
             /\ propIdx' = 1
             /\ UNCHANGED failStep
        ELSE /\ Fail("PROPAGATE")
             /\ UNCHANGED propIdx
    /\ successCount' = 0
    /\ UNCHANGED <<cluster, srcKeys, flow, plan, item, idx, batch, attempts,
                   lastErr, migratedSlots, result, reported, ncmds, okSteps,
                   lastCmd, visited, accepted, completed, marked,
                   onlyReshardOk>>
    /\ UNCHANGED outsideMigration

\* one member of the list is connected to and sent SETSLOT slot NODE target
UpdateNodeSlotOwnership ==
    /\ pc = "propNode"
    /\ \E ok \in BOOLEAN :
        /\ lastCmd' = [kind |-> "NODE", node |-> propIdx,
                       slot |-> slot, ok |-> ok]
        /\ IF ok
           THEN /\ ApplySetSlotNode(propIdx, slot, toNodeID)
                /\ successCount' = successCount + 1
                /\ accepted' = accepted \cup {propIdx}
           ELSE UNCHANGED <<cluster, successCount, accepted>>
    /\ visited' = visited \cup {propIdx}
    /\ propIdx' = propIdx + 1
    /\ pc' = IF propIdx = NumNodes THEN "propEnd" ELSE "propNode"
    /\ UNCHANGED <<srcKeys, flow, plan, item, idx, batch, attempts, lastErr,
                   migratedSlots, result, reported, ncmds, okSteps,
                   completed, marked, failStep, onlyReshardOk>>
    /\ UNCHANGED outsideMigration

\* the loop is over: the propagation fails only when no node accepted
PropagationVerdict ==
    /\ pc = "propEnd"
    /\ IF PropagationOk(successCount)
       THEN /\ pc' = "next"
            /\ UNCHANGED failStep
       ELSE Fail("PROPAGATE")
    /\ UNCHANGED <<cluster, srcKeys, flow, plan, item, idx, batch, attempts,
                   lastErr, propIdx, successCount, migratedSlots, result,
                   reported, ncmds, okSteps, lastCmd, visited, accepted,
                   completed,
                   marked, onlyReshardOk>>
    /\ UNCHANGED outsideMigration

\* ------------------------------------------------- the loops over slots
\* the slot is done: record it and go to the next slot, item, or the end
NextSlot ==
    /\ pc = "next"
    /\ LET lastOfItem == idx = Len(plan[item].slots)
           recorded == IF flow = "reshard" THEN migratedSlots \cup {slot}
                       ELSE IF lastOfItem
                            THEN migratedSlots \cup Range(plan[item].slots)
                            ELSE migratedSlots
       IN  /\ migratedSlots' = recorded
           /\ IF ~lastOfItem
              THEN /\ idx' = idx + 1
                   /\ item' = item
                   /\ pc' = FirstStep(flow)
                   /\ \E n \in 0..MaxKeys : srcKeys' = n
              ELSE IF item < Len(plan)
                   THEN /\ item' = item + 1
                        /\ idx' = 1
                        /\ pc' = "connect"
                        /\ srcKeys' = 0
                   ELSE /\ pc' = "finish"
                        /\ srcKeys' = 0
                        /\ UNCHANGED <<item, idx>>
    /\ okSteps' = {}
    /\ visited' = {}
    /\ accepted' = {}
    /\ batch' = 0
    /\ attempts' = 0
    /\ lastErr' = "none"
    /\ UNCHANGED <<cluster, flow, plan, propIdx, successCount, result,
                   reported, ncmds, lastCmd, completed, marked, failStep,
                   onlyReshardOk>>
    /\ UNCHANGED outsideMigration

\* every slot was moved: reshard re-reads the member list, the others return
Finish ==
    /\ pc = "finish"
    /\ \E ok \in BOOLEAN :
        /\ (flow # "reshard") => ok
        /\ result' = IF ok THEN "ok" ELSE "failed"
        /\ failStep' = IF ok THEN failStep ELSE "verify"
        /\ onlyReshardOk' = (onlyReshardOk /\ flow = "reshard" /\ ok)
    /\ pc' = "idle"
    /\ UNCHANGED <<cluster, srcKeys, flow, plan, item, idx, batch, attempts,
                   lastErr, propIdx, successCount, migratedSlots, reported,
                   ncmds, okSteps, lastCmd, visited, accepted, completed,
                   marked>>
    /\ UNCHANGED outsideMigration

\* variant: the slots recorded as moved are handed back to the source
rollbackReverse ==
    /\ pc = "rollback"
    /\ reported' = migratedSlots
    /\ result' = "failed"
    /\ pc' = "idle"
    /\ onlyReshardOk' = FALSE
    /\ view' = [n \in Nodes |-> [s \in Slots |->
                    IF s \in migratedSlots /\ n \in {fromNodeID, toNodeID}
                    THEN fromNodeID ELSE view[n][s]]]
    /\ UNCHANGED <<migrating, importing, srcKeys, flow, plan, item, idx,
                   batch, attempts, lastErr, propIdx, successCount,
                   migratedSlots, ncmds, okSteps, lastCmd, visited, accepted,
                   completed, marked, failStep>>
    /\ UNCHANGED outsideMigration

\* a move failed: the slots recorded so far are reported, nothing is undone
rollbackResharding ==
    /\ pc = "rollback"
    /\ reported' = migratedSlots
    /\ result' = "failed"
    /\ pc' = "idle"
    /\ onlyReshardOk' = FALSE
    /\ UNCHANGED <<cluster, srcKeys, flow, plan, item, idx, batch, attempts,
                   lastErr, propIdx, successCount, migratedSlots, ncmds,
                   okSteps, lastCmd, visited, accepted, completed, marked,
                   failStep>>
    /\ UNCHANGED outsideMigration

Next ==
    \/ runReshard
    \/ executeRebalancePlan
    \/ runRebalanceDryRun
    \/ reshardBeforeRemoval
    \/ Connect
    \/ SetSlotMigrating
    \/ SetSlotImporting
    \/ ClusterGetKeysInSlot
    \/ MigrateKey
    \/ migrateKeysBatch
    \/ SetSlotNodeSource
    \/ SetSlotNodeTarget
    \/ GetClusterNodes
    \/ UpdateNodeSlotOwnership
    \/ PropagationVerdict
    \/ NextSlot
    \/ Finish
    \/ rollbackResharding

Spec == Init /\ [][Next]_vars

\* reshard after reshard, each started when the previous one has returned
NextReshard ==
    \/ runReshardInSequence
    \/ Connect
    \/ SetSlotMigrating
    \/ SetSlotImporting
    \/ ClusterGetKeysInSlot
    \/ MigrateKey
    \/ SetSlotNodeSource
    \/ SetSlotNodeTarget
    \/ GetClusterNodes
    \/ UpdateNodeSlotOwnership
    \/ PropagationVerdict
    \/ NextSlot
    \/ Finish
    \/ rollbackResharding

SpecReshard == InitReshard /\ [][NextReshard]_vars

\* ------------------------------------------------ rebalance safety check
\* A line of CLUSTER NODES as text, one character per element: id, address,
\* flags, primary id, ping, pong, epoch, link state, then a token for each
\* slot and a token in brackets for each slot in transit.  Ids are hex
\* digits, slots are printed one by one.
nodeIDs == <<"a", "b", "c", "d", "e", "f">>
decimal == <<"0", "1", "2", "3", "4", "5", "6", "7", "8", "9">>
masterWord == <<"m", "a", "s", "t", "e", "r">>
connectedWord == <<"c", "o", "n", "n", "e", "c", "t", "e", "d">>
handshakeWord == <<"h", "a", "n", "d", "s", "h", "a", "k", "e">>
failWord == <<"f", "a", "i", "l">>
migratingWord == <<"m", "i", "g", "r", "a", "t", "i", "n", "g">>
importingWord == <<"i", "m", "p", "o", "r", "t", "i", "n", "g">>

\* strings.Contains
Contains(str, substr) ==
    \E i \in 1..(Len(str) - Len(substr) + 1) :
        SubSeq(str, i, i + Len(substr) - 1) = substr

nodeAddress(n) ==
    <<"1", "2", "7", ".", "0", ".", "0", ".", "1", ":", "7", "0", "0",
      decimal[n + 1]>>

RECURSIVE slotTokens(_)
slotTokens(q) ==
    IF q = <<>> THEN <<>>
    ELSE <<" ", decimal[Head(q) + 1]>> \o slotTokens(Tail(q))

\* the node a marker names; which one it is changes no word of the line
markerPeer(n) == (n % NumNodes) + 1

\* [slot->-id] for each slot the node is migrating
RECURSIVE migratingTokens(_, _)
migratingTokens(n, q) ==
    IF q = <<>> THEN <<>>
    ELSE <<" ", "[", decimal[Head(q) + 1], "-", ">", "-",
           nodeIDs[markerPeer(n)], "]">> \o migratingTokens(n, Tail(q))

\* [slot-<-id] for each slot the node is importing
RECURSIVE importingTokens(_, _)
importingTokens(n, q) ==
    IF q = <<>> THEN <<>>
    ELSE <<" ", "[", decimal[Head(q) + 1], "-", "<", "-",
           nodeIDs[markerPeer(n)], "]">> \o importingTokens(n, Tail(q))

\* the line of node n in the reply of node c, with n's markers on it
nodeLine(c, n) ==
    <<nodeIDs[n], " ">> \o nodeAddress(n) \o <<" ">> \o masterWord
        \o <<" ", "-", " ", "0", " ", "0", " ", decimal[n + 1], " ">>
        \o connectedWord
        \o slotTokens(Ascending(SlotsInView(c, n)))
        \o migratingTokens(n, Ascending(migrating[n]))
        \o importingTokens(n, Ascending(importing[n]))

clusterNodesLines(c) == {nodeLine(c, n) : n \in Nodes}

\* some node line carries a marker of a slot in transit
migrationInProgress ==
    \E n \in Nodes : migrating[n] # {} \/ importing[n] # {}

\* the safety validation: TRUE when it returns no error
validateClusterForRebalancing(info, lines) ==
    /\ info = "ok"
    /\ \A line \in lines :
          /\ ~(Contains(line, handshakeWord) \/ Contains(line, failWord))
          /\ ~(Contains(line, migratingWord)
                \/ Contains(line, importingWord))

\* rebalance through node c, run when an earlier reshard has returned: the
\* validation, then the plan and its execution
runRebalanceCluster ==
    /\ pc = "idle"
    /\ ncmds = 1
    /\ \E c \in Nodes, info \in infoReplies :
        \E ids \in sortedMasters(c) :
            LET asked == [pc |-> "asked", info |-> info,
                          inProgress |-> migrationInProgress]
            IN  IF ~validateClusterForRebalancing(info, clusterNodesLines(c))
                THEN /\ Reject
                     /\ request' = [asked EXCEPT !.pc = "unsafe"]
                ELSE /\ request' = [asked EXCEPT !.pc = "validated"]
                     /\ IF generateRebalancePlan(c, ids) = <<>>
                        THEN returnWithoutExecuting(<<>>, "ok")
                        ELSE /\ Start("rebalance",
                                      generateRebalancePlan(c, ids))
                             /\ onlyReshardOk' = FALSE
    /\ UNCHANGED outsideReshard

\* a reshard, then a rebalance of the cluster the reshard left behind
NextRebalance ==
    \/ runReshard
    \/ runRebalanceCluster
    \/ Connect
    \/ SetSlotMigrating
    \/ SetSlotImporting
    \/ ClusterGetKeysInSlot
    \/ MigrateKey
    \/ migrateKeysBatch
    \/ SetSlotNodeSource
    \/ SetSlotNodeTarget
    \/ GetClusterNodes
    \/ UpdateNodeSlotOwnership
    \/ PropagationVerdict
    \/ NextSlot
    \/ Finish
    \/ rollbackResharding

SpecRebalance == Init /\ [][NextRebalance]_vars

\* ====================================================== rebalance planner
\* generateRebalancePlan on its own: the masters of a CLUSTER NODES reply
\* with any slots, the pairing loop one iteration at a time
PlanIDs == 1..PlanMasters
PlanSlotRange == 0..(PlanSlots - 1)

\* the slots on the line of master id; owner[s] = 0 is an unassigned slot
slotsOfMaster(owner, id) == Ascending({s \in PlanSlotRange : owner[s] = id})

\* the orders the sort can leave the masters in
sortedBySlotCount(owner) ==
    {ids \in [1..PlanMasters -> PlanIDs] :
        /\ \A i, j \in 1..PlanMasters : i # j => ids[i] # ids[j]
        /\ \A i \in 1..(PlanMasters - 1) :
              Len(slotsOfMaster(owner, ids[i]))
                  >= Len(slotsOfMaster(owner, ids[i + 1]))}

\* the replies handed to the planner: every master's line is one range of
\* any length, the ranges lie in the order of the ids, and the unassigned
\* slots come first
slotRanges ==
    {owner \in [PlanSlotRange -> {0} \cup PlanIDs] :
        \A s, t \in PlanSlotRange : s < t => owner[s] <= owner[t]}

\* the planner is called with the masters of owner
InitPlan ==
    /\ Settled(NumNodes)
    /\ addnode = notRunning
    /\ create = notRunning
    /\ join = notRunning
    /\ delnode = notRunning
    /\ manager = notRunning
    /\ loader = notRunning
    /\ request = notRunning
    /\ normalize = notRunning
    /\ \E owner \in slotRanges :
         \E ids \in sortedBySlotCount(owner) :
            LET st == pairingStart(
                          idealSlots(PlanSlots, PlanMasters), ids,
                          [i \in 1..PlanMasters |->
                              slotsOfMaster(owner, ids[i])])
            IN  planner = [pc |-> "pairing", owner |-> owner,
                           st |-> st, prev |-> st]

\* the loop body runs once more
pairingIteration ==
    /\ planner.pc = "pairing"
    /\ ~pairDonors(planner.st).done
    /\ planner' = [planner EXCEPT !.st = pairDonors(planner.st),
                                  !.prev = planner.st]
    /\ UNCHANGED <<migrationVars, addnode, create, join, delnode, manager,
                   loader, request, normalize>>

\* the loop is left and the plan returned
returnPlan ==
    /\ planner.pc = "pairing"
    /\ pairDonors(planner.st).done
    /\ planner' = [planner EXCEPT !.pc = "done"]
    /\ UNCHANGED <<migrationVars, addnode, create, join, delnode, manager,
                   loader, request, normalize>>

NextPlan ==
    \/ pairingIteration
    \/ returnPlan

SpecPlan == InitPlan /\ [][NextPlan]_vars

\* slot counts before the plan and after it has been applied
RECURSIVE slotsMoved(_, _, _)
slotsMoved(p, field, id) ==
    IF p = <<>> THEN 0
    ELSE (IF Head(p)[field] = id THEN Len(Head(p).slots) ELSE 0)
         + slotsMoved(Tail(p), field, id)

countBefore(id) == Cardinality({s \in PlanSlotRange : planner.owner[s] = id})
countAfter(id) ==
    countBefore(id) - slotsMoved(planner.st.plan, "from", id)
                    + slotsMoved(planner.st.plan, "to", id)

Abs(x) == IF x < 0 THEN -x ELSE x

\* the slot count of every master, before and after the plan
slotsBefore == [id \in PlanIDs |-> countBefore(id)]
slotsAfter == [id \in PlanIDs |-> countAfter(id)]

\* the largest distance of a master's count from the ideal count
maxDeviation(count) ==
    LET ideal == idealSlots(PlanSlots, PlanMasters)
        devs == {Abs(count[id] - ideal) : id \in PlanIDs}
    IN  CHOOSE d \in devs : \A e \in devs : e <= d

\* maxDeviation / idealSlots * 100 as a fraction
calculateImbalance(count) ==
    [num |-> maxDeviation(count) * 100,
     den |-> idealSlots(PlanSlots, PlanMasters)]

\* imbalance < float64(threshold)
belowThreshold(imbalance) == imbalance.num < threshold * imbalance.den

excessOf(id) ==
    IF countBefore(id) > idealSlots(PlanSlots, PlanMasters)
    THEN countBefore(id) - idealSlots(PlanSlots, PlanMasters) ELSE 0

\* slots the plan takes from master id
movedFrom(id) == slotsMoved(planner.st.plan, "from", id)

\* the sum of the masters' excess above the ideal count
RECURSIVE totalExcess(_)
totalExcess(ids) ==
    IF ids = {} THEN 0
    ELSE LET id == CHOOSE x \in ids : TRUE
         IN  excessOf(id) + totalExcess(ids \ {id})

\* the number of slots in the plan
RECURSIVE totalMoved(_)
totalMoved(p) ==
    IF p = <<>> THEN 0 ELSE Len(Head(p).slots) + totalMoved(Tail(p))

planReturned == planner.pc = "done"

\* ================================================================ add-node
\* runAddNode in its two variants, against an existing member E, the new
\* node N and the other members of E's cluster.  Every reply of a node is an
\* input of the step that asks for it.
existingNode == 1
newNode == 2
otherNodes == 3..(2 + OtherMembers)
addresses == {existingNode, newNode} \cup otherNodes

\* err == nil && info["cluster_state"] != "fail"
alreadyInCluster(reply) == reply # "err" /\ reply # "fail"

\* err != nil || clusterInfo["cluster_state"] == "fail"
notHealthy(reply) == reply = "err" \/ reply = "fail"

\* the replies of CLUSTER REPLICATE
replicateReplies == {"ok", "Unknown node", "other"}

\* a command sent to node on
Command(op, on, arg, reply) ==
    [op |-> op, on |-> on, arg |-> arg, reply |-> reply]

\* the command is called: variant v of the code, with or without
\* --master-id; up are the addresses that accept a connection
addNodeStart(v, masterID, up) ==
    [pc |-> "validateExisting", variant |-> v, masterID |-> masterID,
     up |-> up,
     newClusterInfo |-> "none",
     cmds |-> <<>>,
     retry |-> 0,
     newNodeID |-> FALSE,
     addedNode |-> FALSE,
     rolledBack |-> FALSE,
     result |-> "none",
     err |-> "none"]

addNodeRuns == addnode.pc \notin {"off", "done"}

returnError(a, e) == [a EXCEPT !.pc = "done", !.result = "err", !.err = e]
returnNil(a) == [a EXCEPT !.pc = "done", !.result = "ok"]

otherCommands ==
    <<migrationVars, planner, create, join, delnode, manager, loader, request,
      normalize>>

\* step 1: E answers and its cluster is healthy
validateExisting ==
    /\ addnode.pc = "validateExisting"
    /\ \E reply \in infoReplies :
         addnode' =
            IF existingNode \notin addnode.up
            THEN returnError(addnode, "connect existing")
            ELSE IF notHealthy(reply)
            THEN returnError(addnode, "existing not healthy")
            ELSE [addnode EXCEPT !.pc = "validateNew"]
    /\ UNCHANGED otherCommands

\* step 2: N answers and is not part of a cluster
validateNew ==
    /\ addnode.pc = "validateNew"
    /\ \E reply \in infoReplies :
         addnode' =
            IF newNode \notin addnode.up
            THEN returnError(addnode, "connect new")
            ELSE IF alreadyInCluster(reply)
            THEN returnError(
                     [addnode EXCEPT !.newClusterInfo = reply],
                     "already in a cluster")
            ELSE [addnode EXCEPT
                     !.newClusterInfo = reply,
                     !.pc = IF addnode.masterID # ""
                            THEN "validateMaster" ELSE "meet"]
    /\ UNCHANGED otherCommands

\* step 3: the master id names a master of E's view
validateMaster ==
    /\ addnode.pc = "validateMaster"
    /\ \E nodesErr, masterFound \in BOOLEAN :
         addnode' =
            IF nodesErr THEN returnError(addnode, "cluster nodes")
            ELSE IF ~masterFound
            THEN returnError(addnode, "master not found")
            ELSE [addnode EXCEPT !.pc = "meet"]
    /\ UNCHANGED otherCommands

\* the client CLUSTER MEET is sent on, and the address it names
meetClient(v) == IF v = 1 THEN existingNode ELSE newNode
meetAddress(v) == newNode

\* step 4: CLUSTER MEET
clusterMeet ==
    /\ addnode.pc = "meet"
    /\ \E ok \in BOOLEAN :
         LET on == meetClient(addnode.variant)
             to == meetAddress(addnode.variant)
             sent == [addnode EXCEPT !.cmds = Append(@,
                         Command("MEET", on, to,
                                 IF ok THEN "ok" ELSE "err"))]
         IN  addnode' =
                IF ~ok THEN returnError(sent, "meet")
                ELSE [sent EXCEPT
                         !.pc = IF addnode.masterID # ""
                                THEN "replicate" ELSE "verify"]
    /\ UNCHANGED otherCommands

\* rollbackAddNode: CLUSTER RESET HARD on N, then CLUSTER FORGET on E for
\* the line of E's view that carries N's address; no failure is returned
rollbackAddNode(a, resetOk, nodesErr, listed, forgetOk) ==
    IF newNode \notin a.up THEN a
    ELSE LET reset == [a EXCEPT
                 !.rolledBack = TRUE,
                 !.cmds = Append(@, Command("RESET HARD", newNode, newNode,
                                  IF resetOk THEN "ok" ELSE "err"))]
         IN  IF existingNode \in a.up /\ ~nodesErr /\ listed
             THEN [reset EXCEPT
                      !.cmds = Append(@,
                          Command("FORGET", existingNode, newNode,
                                  IF forgetOk THEN "ok" ELSE "err"))]
             ELSE reset

\* the first variant's retry loop, one iteration: the loop is left on
\* success; "Unknown node" before the last attempt continues it, and every
\* other error falls through to the next iteration as well
replicateIteration(a, reply, resetOk, nodesErr, listed, forgetOk) ==
    LET sent == [a EXCEPT !.cmds = Append(@,
                    Command("REPLICATE", newNode, a.masterID, reply))]
        continues == reply = "Unknown node" /\ a.retry < addNodeRetries - 1
        next == [sent EXCEPT !.retry = @ + 1]
    IN  IF reply = "ok" THEN [sent EXCEPT !.pc = "verify", !.retry = 0]
        ELSE IF continues THEN next
        ELSE IF next.retry < addNodeRetries THEN next
        ELSE returnError(
                 rollbackAddNode(next, resetOk, nodesErr, listed, forgetOk),
                 "replicate")

\* the second variant sends CLUSTER REPLICATE once
replicateOnce(a, reply) ==
    LET sent == [a EXCEPT !.cmds = Append(@,
                    Command("REPLICATE", newNode, a.masterID, reply))]
    IN  IF reply = "ok" THEN [sent EXCEPT !.pc = "verify"]
        ELSE returnError(sent, "replicate")

\* step 5: the new node is made a replica of the master
clusterReplicate ==
    /\ addnode.pc = "replicate"
    /\ \E reply \in replicateReplies :
       \E resetOk, nodesErr, listed, forgetOk \in BOOLEAN :
         addnode' =
            IF addnode.variant = 1
            THEN replicateIteration(addnode, reply, resetOk, nodesErr,
                                    listed, forgetOk)
            ELSE replicateOnce(addnode, reply)
    /\ UNCHANGED otherCommands

\* step 6, the first variant: N's id is asked from N; without it N is
\* looked up in E's view by address
verifyFirst(a, idOk, nodesErr, listed) ==
    IF idOk THEN [a EXCEPT !.newNodeID = TRUE, !.pc = "findByID",
                           !.retry = 0]
    ELSE IF nodesErr THEN returnError(a, "cluster state")
    ELSE IF listed THEN returnNil([a EXCEPT !.addedNode = TRUE])
    ELSE returnError(a, "not found")

\* step 6, the second variant: N's id is asked from N
verifySecond(a, idOk) ==
    IF idOk THEN returnNil([a EXCEPT !.newNodeID = TRUE])
    ELSE returnError(a, "node id")

verify ==
    /\ addnode.pc = "verify"
    /\ \E idOk, nodesErr, listed \in BOOLEAN :
         addnode' =
            IF addnode.variant = 1
            THEN verifyFirst(addnode, idOk, nodesErr, listed)
            ELSE verifySecond(addnode, idOk)
    /\ UNCHANGED otherCommands

\* one iteration of the search of E's view for N's id
findByID ==
    /\ addnode.pc = "findByID"
    /\ \E nodesErr, listed \in BOOLEAN :
         addnode' =
            IF nodesErr THEN returnError(addnode, "cluster state")
            ELSE IF listed
            THEN returnNil([addnode EXCEPT !.addedNode = TRUE])
            ELSE IF addnode.retry + 1 < verifyRetries
            THEN [addnode EXCEPT !.retry = @ + 1]
            ELSE [addnode EXCEPT !.retry = @ + 1, !.pc = "findByAddress"]
    /\ UNCHANGED otherCommands

\* the id was not found: E's view is searched for N's address, and the
\* command ends with success whether or not it is there
findByAddress ==
    /\ addnode.pc = "findByAddress"
    /\ \E nodesErr, listed \in BOOLEAN :
         addnode' =
            IF nodesErr THEN returnError(addnode, "cluster state")
            ELSE returnNil([addnode EXCEPT !.addedNode = listed])
    /\ UNCHANGED otherCommands

\* the command has returned
addNodeReturned == addnode.pc = "done"

\* ========================================================= create preflight
\* runCreateCluster up to the end of its MEET fan-out: one worker per input
\* address checks the node and sends its result, the results are stored by
\* index, reported in input order, and the first node meets the others
createNodes == 1..create.n

\* 3 masters, and the replicas of each
calculateMinNodes(replicas) ==
    IF replicas = 0 THEN 3 ELSE 3 * (replicas + 1)

\* variant: every replica is given to the first master
replicaMasterFirst(j, mastersCount) == 1

\* the master of the j-th replica node (masterIndex goes round)
replicaMaster(j, mastersCount) == ((j - 1) % mastersCount) + 1

\* the first mastersCount addresses are the masters, the others are handed
\* to the masters in turn
calculateClusterLayout(totalNodes, replicas) ==
    LET perMaster == totalNodes \div (replicas + 1)
        mastersCount == IF perMaster < 3 THEN 3 ELSE perMaster
        replicaNodes == totalNodes - mastersCount
    IN  IF (perMaster < 3 /\ totalNodes < 3)
           \/ (replicas > 0 /\ replicaNodes < mastersCount)
        THEN [err |-> TRUE, masters |-> <<>>, replicaMap |-> <<>>]
        ELSE [err |-> FALSE,
              masters |-> [i \in 1..mastersCount |-> i],
              replicaMap |->
                  [r \in (mastersCount + 1)..totalNodes |->
                      replicaMaster(r - mastersCount, mastersCount)]]

nodeCheckResult(index, info, success, message) ==
    [index |-> index, info |-> info, success |-> success,
     message |-> message]

\* create is called with n addresses and --replicas
createStart(n, replicas) ==
    [pc |-> "preflight",
     n |-> n,
     replicas |-> replicas,
     pending |-> 1..n,           \* workers that have not sent their result
     results |-> <<>>,           \* the channel
     nodeResults |-> [i \in 1..n |->
                         nodeCheckResult(0, "none", FALSE, "")],
     masters |-> <<>>,
     replicaMap |-> <<>>,
     next |-> 2,                 \* the next address of the MEET loop
     currentSlot |-> 0,
     assigned |-> <<>>,          \* the ranges handed out by ADDSLOTS
     todo |-> {},                \* the replicas not yet set up
     coverage |-> "none",        \* what the coverage check found
     cmds |-> <<>>,
     printed |-> <<>>,           \* the addresses of the lines reported
     result |-> "none",
     failed |-> "none",          \* the step that made the command fail
     err |-> 0]

otherThanCreate ==
    <<migrationVars, planner, addnode, join, delnode, manager, loader, request,
      normalize>>

\* the worker of address index: Connect, CLUSTER INFO, send
nodeCheck(index, connected, reply) ==
    IF ~connected
    THEN nodeCheckResult(index, "none", FALSE, "connect failed")
    ELSE IF alreadyInCluster(reply)
    THEN nodeCheckResult(index, reply, FALSE, "already in a cluster")
    ELSE nodeCheckResult(index, reply, TRUE, "connected")

checkNode ==
    /\ create.pc = "preflight"
    /\ \E index \in create.pending :
       \E connected \in BOOLEAN, reply \in infoReplies :
         create' = [create EXCEPT
                       !.pending = @ \ {index},
                       !.results = Append(@,
                           nodeCheck(index, connected, reply))]
    /\ UNCHANGED otherThanCreate

\* variant: the results are kept in the order they arrive in
storeInArrivalOrder(nodeResults, r) ==
    LET stored == {i \in DOMAIN nodeResults : nodeResults[i].index # 0}
    IN  [nodeResults EXCEPT ![Cardinality(stored) + 1] = r]

\* nodeResults[result.index] = result
storeResult(nodeResults, r) == [nodeResults EXCEPT ![r.index] = r]

\* one turn of the loop over the channel
collectResult ==
    /\ create.pc = "preflight"
    /\ create.results # <<>>
    /\ create' = [create EXCEPT
                     !.results = Tail(@),
                     !.nodeResults =
                         storeResult(@, Head(create.results))]
    /\ UNCHANGED otherThanCreate

\* masters and replicas are chosen; the MEET loop comes next
withLayout(c) ==
    LET layout == calculateClusterLayout(c.n, c.replicas)
    IN  IF layout.err
        THEN [c EXCEPT !.pc = "done", !.result = "err",
                       !.failed = "layout"]
        ELSE [c EXCEPT !.pc = "meet", !.masters = layout.masters,
                       !.replicaMap = layout.replicaMap]

\* the channel is closed and empty: the results are gone through in input
\* order and the first failed one ends the command; then the layout is
\* computed
reportResults ==
    /\ create.pc = "preflight"
    /\ create.pending = {}
    /\ create.results = <<>>
    /\ LET failed == {i \in createNodes :
                         ~create.nodeResults[i].success}
           first == CHOOSE i \in failed : \A j \in failed : i <= j
           shown == IF failed # {} THEN first ELSE create.n
           lines == [create EXCEPT !.printed =
                        [i \in 1..shown |-> create.nodeResults[i].index]]
       IN  create' =
              IF failed # {}
              THEN [lines EXCEPT !.pc = "done", !.result = "err",
                                 !.failed = "preflight",
                                 !.err = create.nodeResults[first].index]
              ELSE withLayout(lines)
    /\ UNCHANGED otherThanCreate

\* CLUSTER MEET on the first node for the next address
handshake ==
    /\ create.pc = "meet"
    /\ \E ok \in BOOLEAN :
         LET sent == [create EXCEPT
                         !.cmds = Append(@,
                             Command("MEET", 1, create.next,
                                     IF ok THEN "ok" ELSE "err")),
                         !.next = @ + 1]
         IN  create' =
                IF ~ok
                THEN [sent EXCEPT !.pc = "done", !.result = "err",
                                  !.failed = "meet", !.err = create.next]
                ELSE IF create.next = create.n
                THEN [sent EXCEPT !.pc = "assign"]
                ELSE sent
    /\ UNCHANGED otherThanCreate

\* --------------------------------------------------------- SpecNewNodes
InitNewNodes ==
    /\ Settled(NumNodes)
    /\ planner = notRunning
    /\ join = notRunning
    /\ delnode = notRunning
    /\ manager = notRunning
    /\ loader = notRunning
    /\ request = notRunning
    /\ normalize = notRunning
    /\ \/ /\ create = notRunning
          /\ \E v \in {1, 2}, masterID \in {"", "M"} :
             \E up \in SUBSET addresses :
                addnode = addNodeStart(v, masterID, up)
       \/ /\ addnode = notRunning
          /\ create = createStart(CreateNodes, 0)

NextNewNodes ==
    \/ validateExisting
    \/ validateNew
    \/ validateMaster
    \/ clusterMeet
    \/ clusterReplicate
    \/ verify
    \/ findByID
    \/ findByAddress
    \/ checkNode
    \/ collectResult
    \/ reportResults
    \/ handshake

SpecNewNodes == InitNewNodes /\ [][NextNewNodes]_vars

\* ================================================================== create
\* runCreateCluster after its preflight: the MEET loop, the ADDSLOTS loop,
\* the replicas, the final check, and the resets after a failure.  Every
\* address is connected since the preflight, so Connect returns its client.

\* variant: one master more takes part in the remainder
slotsForMasterOneMore(i, mastersCount) ==
    (totalSlots \div mastersCount)
        + (IF i - 1 <= totalSlots % mastersCount THEN 1 ELSE 0)

\* slots := slotsPerMaster; if i < remainder { slots++ }, for the i-th
\* master (the code counts from 0)
slotsForMaster(i, mastersCount) ==
    (totalSlots \div mastersCount)
        + (IF i - 1 < totalSlots % mastersCount THEN 1 ELSE 0)

\* rollbackPartialSlotAssignment: CLUSTER RESET SOFT on every master that
\* got its slots, CLUSTER RESET HARD where that failed
RECURSIVE rollbackPartialSlotAssignment(_, _)
rollbackPartialSlotAssignment(assignedMasters, softOk) ==
    IF assignedMasters = <<>> THEN <<>>
    ELSE LET masterNode == Head(assignedMasters).node
             soft == Command("RESET SOFT", masterNode, masterNode,
                             IF softOk[masterNode] THEN "ok" ELSE "err")
             hard == Command("RESET HARD", masterNode, masterNode,
                             "unchecked")
         IN  (IF softOk[masterNode] THEN <<soft>> ELSE <<soft, hard>>)
                 \o rollbackPartialSlotAssignment(Tail(assignedMasters),
                                                  softOk)

\* variant: only the masters are reset
rollbackClusterCreationMasters(c) ==
    [i \in 1..Len(c.masters) |->
        Command("RESET HARD", c.masters[i], c.masters[i], "unchecked")]

\* rollbackClusterCreation: CLUSTER RESET HARD on every input address
rollbackClusterCreation(c) ==
    [i \in 1..c.n |-> Command("RESET HARD", i, i, "unchecked")]

createFails(c, step) ==
    [c EXCEPT !.pc = "done", !.result = "err", !.failed = step]

\* one iteration of the ADDSLOTS loop
clusterAddSlots ==
    /\ create.pc = "assign"
    /\ \E ok \in BOOLEAN, softOk \in [createNodes -> BOOLEAN] :
         LET i == Len(create.assigned) + 1
             masterNode == create.masters[i]
             slots == slotsForMaster(i, Len(create.masters))
             endSlot == create.currentSlot + slots - 1
             sent == [create EXCEPT !.cmds = Append(@,
                         Command("ADDSLOTS", masterNode,
                                 create.currentSlot,
                                 IF ok THEN "ok" ELSE "err"))]
         IN  create' =
                IF ~ok
                THEN createFails(
                         [sent EXCEPT !.cmds =
                             @ \o rollbackPartialSlotAssignment(
                                      create.assigned, softOk)
                               \o rollbackClusterCreation(create)],
                         "addslots")
                ELSE [sent EXCEPT
                         !.assigned = Append(@,
                             [node |-> masterNode,
                              start |-> create.currentSlot,
                              end |-> endSlot]),
                         !.currentSlot = @ + slots,
                         !.todo = DOMAIN create.replicaMap,
                         !.pc = IF i < Len(create.masters) THEN "assign"
                                ELSE IF DOMAIN create.replicaMap # {}
                                THEN "replicate" ELSE "verify"]
    /\ UNCHANGED otherThanCreate

\* one iteration of the loop over replicaMap, which a map hands out in any
\* order: the master's id is asked, the replica is sent CLUSTER REPLICATE
setReplica ==
    /\ create.pc = "replicate"
    /\ \E replicaNode \in create.todo, idOk, ok \in BOOLEAN :
         LET masterNode == create.replicaMap[replicaNode]
             sent == [create EXCEPT !.cmds = Append(@,
                         Command("REPLICATE", replicaNode, masterNode,
                                 IF ok THEN "ok" ELSE "err"))]
         IN  create' =
                IF ~idOk
                THEN createFails(
                         [create EXCEPT !.cmds =
                             @ \o rollbackClusterCreation(create)],
                         "master id")
                ELSE IF ~ok
                THEN createFails(
                         [sent EXCEPT !.cmds =
                             @ \o rollbackClusterCreation(create)],
                         "replicate")
                ELSE [sent EXCEPT
                         !.todo = @ \ {replicaNode},
                         !.pc = IF create.todo = {replicaNode}
                                THEN "verify" ELSE "replicate"]
    /\ UNCHANGED otherThanCreate

\* what verifySlotCoverage can come back with: an error, fewer than 16384
\* slots, or all of them
coverageReplies == {"err", "partial", "full"}

\* step 6: cluster state and slot coverage as the first node sees them
verifyCluster ==
    /\ create.pc = "verify"
    /\ \E info \in infoReplies, slotsCovered \in coverageReplies :
         create' =
            IF info = "err" THEN createFails(create, "cluster info")
            ELSE IF info # "ok" THEN createFails(create, "cluster state")
            ELSE [create EXCEPT !.pc = "done", !.result = "ok",
                                !.coverage = slotsCovered]
    /\ UNCHANGED otherThanCreate

\* every worker of the preflight has reported a node that can be taken
preflightPassed(n, replicas) ==
    withLayout([createStart(n, replicas) EXCEPT
                   !.pending = {},
                   !.nodeResults = [i \in 1..n |->
                       nodeCheckResult(i, "fail", TRUE, "connected")]])

InitCreate ==
    /\ Settled(NumNodes)
    /\ planner = notRunning
    /\ addnode = notRunning
    /\ join = notRunning
    /\ delnode = notRunning
    /\ manager = notRunning
    /\ loader = notRunning
    /\ request = notRunning
    /\ normalize = notRunning
    /\ \E replicas \in 0..MaxReplicas :
         \E n \in calculateMinNodes(replicas)..MaxCreateNodes :
            create = preflightPassed(n, replicas)

NextCreate ==
    \/ handshake
    \/ clusterAddSlots
    \/ setReplica
    \/ verifyCluster

SpecCreate == InitCreate /\ [][NextCreate]_vars


\* ====================================================== convergence wait
\* waitForClusterJoin, one poll: the lines of the existing node's view are
\* gone through, every node that is not failed is asked for its own view,
\* and the signatures of the views are compared
sigIDs == 1..SigNodes

\* the flag lists a line of CLUSTER NODES carries in the model
flagLists ==
    {<<"master">>, <<"myself", "master">>, <<"master", "handshake">>,
     <<"master", "fail">>}

ClusterNode(id, flags) == [ID |-> id, Address |-> id, Flags |-> flags]

\* the replies of CLUSTER NODES: one line per node, in any order
clusterViews ==
    {v \in [sigIDs -> {ClusterNode(id, f) : id \in sigIDs, f \in flagLists}] :
        \A i, j \in sigIDs : i # j => v[i].ID # v[j].ID}

\* GetClusterNodes: an error, or the lines
nodesReplies ==
    {[err |-> TRUE, nodes |-> <<>>]}
        \cup {[err |-> FALSE, nodes |-> v] : v \in clusterViews}

stringSliceContains(slice, s) == \E k \in 1..Len(slice) : slice[k] = s

\* "id:flag,flag|id:flag,flag": the lines in the order of the reply, every
\* flag kept; the joined string is written as the sequence of its parts
createClusterSignature(clusterNodes) ==
    [k \in 1..Len(clusterNodes) |->
        <<clusterNodes[k].ID, clusterNodes[k].Flags>>]

\* the line is left out of the poll
skipped(node) ==
    \/ stringSliceContains(node.Flags, "fail")
    \/ stringSliceContains(node.Flags, "disconnected")

\* the body of the inner loop for line i (the code counts from 0)
pollLine(j) ==
    LET node == j.clusterNodes[j.i]
        reply == j.replies[node.Address]
        signature == createClusterSignature(reply.nodes)
        next == [j EXCEPT !.i = @ + 1]
    IN  IF skipped(node) THEN next
        ELSE IF reply.err
        THEN [next EXCEPT !.consistent = FALSE, !.pc = "polled"]
        ELSE IF j.i = 1
        THEN [next EXCEPT !.firstSignature = signature]
        ELSE IF j.firstSignature # signature
        THEN [next EXCEPT !.consistent = FALSE, !.pc = "polled"]
        ELSE next

otherThanJoin ==
    <<migrationVars, planner, addnode, create, delnode, manager, loader,
      request,
      normalize>>

InitJoin ==
    /\ Settled(NumNodes)
    /\ planner = notRunning
    /\ addnode = notRunning
    /\ create = notRunning
    /\ delnode = notRunning
    /\ manager = notRunning
    /\ loader = notRunning
    /\ request = notRunning
    /\ normalize = notRunning
    /\ \E v \in clusterViews, replies \in [sigIDs -> nodesReplies] :
         join = [pc |-> "polling", clusterNodes |-> v, replies |-> replies,
                 i |-> 1, consistent |-> TRUE, firstSignature |-> <<>>,
                 result |-> "none"]

pollNode ==
    /\ join.pc = "polling"
    /\ join.i <= Len(join.clusterNodes)
    /\ join' = pollLine(join)
    /\ UNCHANGED otherThanJoin

\* every line has been gone through
pollComplete ==
    /\ join.pc = "polling"
    /\ join.i > Len(join.clusterNodes)
    /\ join' = [join EXCEPT !.pc = "polled"]
    /\ UNCHANGED otherThanJoin

\* if consistent { return nil }, else sleep and poll again
pollVerdict ==
    /\ join.pc = "polled"
    /\ join' = [join EXCEPT
                   !.pc = "done",
                   !.result = IF join.consistent THEN "converged"
                              ELSE "again"]
    /\ UNCHANGED otherThanJoin

NextJoin ==
    \/ pollNode
    \/ pollComplete
    \/ pollVerdict

SpecJoin == InitJoin /\ [][NextJoin]_vars

\* the lines of the poll that are asked for their view
polledNodes ==
    {join.clusterNodes[k].Address : k \in
        {k \in 1..Len(join.clusterNodes) : ~skipped(join.clusterNodes[k])}}

\* membership and flags of a view, whatever the order of the lines, with
\* myself and handshake left out
membership(nodes) ==
    {<<nodes[k].ID,
       {nodes[k].Flags[f] : f \in 1..Len(nodes[k].Flags)}
           \ {"myself", "handshake"}>> : k \in 1..Len(nodes)}

\* ================================================================ del-node
\* runDelNode around the slot moves: the validation, the start of the drain
\* and its return, the CLUSTER FORGET fan-out and the final check.  The
\* first nodes carry the master flag, the others are replicas.

delNodeStart(m) ==
    [pc |-> "validate",
     masters |-> 1..m,       \* the nodes that carry the master flag
     T |-> noNode,           \* nodeIDToRemove
     owned |-> {},           \* nodeInfo.Slots
     listing |-> Nodes,      \* the nodes whose table lists T
     todo |-> <<>>,          \* the lines the fan-out has not reached yet
     cmds |-> <<>>,
     successCount |-> 0,
     result |-> "none",
     err |-> "none"]

delNodeFails(d, e) == [d EXCEPT !.pc = "done", !.result = "err", !.err = e]

otherThanDelNode ==
    <<planner, addnode, create, join, manager, loader, request, normalize>>

\* the lines other than excludeNodeID that carry the master flag, in the
\* order of the reply
mastersExcept(flagged, excludeNodeID) ==
    LET others == flagged \ {excludeNodeID}
    IN  {q \in [1..Cardinality(others) -> others] :
            \A i, j \in 1..Cardinality(others) : i # j => q[i] # q[j]}

\* variant: one other master is enough
tooFewMastersNone(n) == n < 1

\* len(masters) < 2
tooFewMasters(n) == n < 2

\* steps 1 and 2 and the master count: node c answers CLUSTER NODES
validateDelNode ==
    /\ delnode.pc = "validate"
    /\ pc = "idle"
    /\ \E T \in Nodes \cup {noNode}, c \in Nodes :
       \E pingOk, infoErr, mastersErr \in BOOLEAN :
         LET Slots_T == IF T = noNode THEN {} ELSE SlotsInView(c, T)
             d == [delnode EXCEPT !.T = T, !.owned = Slots_T]
             n == Cardinality(delnode.masters \ {T})
         IN  delnode' =
                IF ~pingOk THEN delNodeFails(d, "connect")
                ELSE IF infoErr \/ T = noNode
                THEN delNodeFails(d, "node info")
                ELSE IF T \notin delnode.masters
                THEN [d EXCEPT !.pc = "forget"]
                ELSE IF mastersErr THEN delNodeFails(d, "other masters")
                ELSE IF Slots_T # {} /\ n = 0
                THEN delNodeFails(d, "no other master")
                ELSE IF tooFewMasters(n)
                THEN delNodeFails(d, "too few masters")
                ELSE [d EXCEPT !.pc = IF Slots_T # {} THEN "reshard"
                                      ELSE "forget"]
    /\ UNCHANGED migrationVars
    /\ UNCHANGED otherThanDelNode

\* reshardBeforeRemoval is entered: the other masters are listed again and
\* the slots of T are cut into their shares
drainStarts ==
    /\ delnode.pc = "reshard"
    /\ pc = "idle"
    /\ \E mastersErr \in BOOLEAN :
         IF mastersErr
         THEN /\ delnode' = delNodeFails(delnode, "reshard")
              /\ UNCHANGED migrationVars
         ELSE \E masters \in mastersExcept(delnode.masters, delnode.T) :
                /\ Start("delnode",
                         reshardBeforeRemovalGroups(
                             delnode.T, masters, Ascending(delnode.owned)))
                /\ onlyReshardOk' = FALSE
                /\ delnode' = [delnode EXCEPT !.pc = "moving"]
    /\ UNCHANGED otherThanDelNode

\* variant: the error of the drain is not looked at
drainFailedNever(res) == FALSE

\* if err := reshardBeforeRemoval(...); err != nil
drainFailed(res) == res # "ok"

\* reshardBeforeRemoval has returned
drainReturns ==
    /\ delnode.pc = "moving"
    /\ pc = "idle"
    /\ result # "none"
    /\ delnode' = IF drainFailed(result)
                  THEN delNodeFails(delnode, "reshard")
                  ELSE [delnode EXCEPT !.pc = "forget"]
    /\ UNCHANGED migrationVars
    /\ UNCHANGED otherThanDelNode

\* variant: the removed node is sent the command as well
forgetTargetsAll(T) == Nodes

\* the lines of the view the fan-out sends CLUSTER FORGET to
forgetTargets(T) == Nodes \ {T}

\* forgetNodeFromAllNodes lists the nodes
forgetStarts ==
    /\ delnode.pc = "forget"
    /\ \E nodesErr \in BOOLEAN :
         delnode' =
            IF nodesErr THEN delNodeFails(delnode, "forget")
            ELSE [delnode EXCEPT
                     !.pc = "forgetting",
                     !.todo = Ascending(forgetTargets(delnode.T))]
    /\ UNCHANGED migrationVars
    /\ UNCHANGED otherThanDelNode

\* CLUSTER FORGET on the next line's node
clusterForget ==
    /\ delnode.pc = "forgetting"
    /\ delnode.todo # <<>>
    /\ \E ok \in BOOLEAN :
         LET n == Head(delnode.todo)
         IN  delnode' = [delnode EXCEPT
                 !.todo = Tail(@),
                 !.cmds = Append(@, Command("FORGET", n, delnode.T,
                                            IF ok THEN "ok" ELSE "err")),
                 !.successCount = IF ok THEN @ + 1 ELSE @,
                 !.listing = IF ok THEN @ \ {n} ELSE @]
    /\ UNCHANGED migrationVars
    /\ UNCHANGED otherThanDelNode

\* the fan-out fails only if no node took the command
forgetVerdict ==
    /\ delnode.pc = "forgetting"
    /\ delnode.todo = <<>>
    /\ delnode' = IF delnode.successCount = 0
                  THEN delNodeFails(delnode, "forget")
                  ELSE [delnode EXCEPT !.pc = "verify"]
    /\ UNCHANGED migrationVars
    /\ UNCHANGED otherThanDelNode

\* validateRemoval: node c's view must not list T any more
validateRemoval ==
    /\ delnode.pc = "verify"
    /\ \E c \in Nodes \ {delnode.T}, nodesErr \in BOOLEAN :
         delnode' =
            IF nodesErr THEN delNodeFails(delnode, "verify")
            ELSE IF c \in delnode.listing
            THEN delNodeFails(delnode, "still present")
            ELSE [delnode EXCEPT !.pc = "done", !.result = "ok"]
    /\ UNCHANGED migrationVars
    /\ UNCHANGED otherThanDelNode

\* a cluster of m masters, k of them with slots, and NumNodes - m replicas
InitDelNode ==
    /\ planner = notRunning
    /\ addnode = notRunning
    /\ create = notRunning
    /\ join = notRunning
    /\ manager = notRunning
    /\ loader = notRunning
    /\ request = notRunning
    /\ normalize = notRunning
    /\ \E m \in Nodes :
         /\ delnode = delNodeStart(m)
         /\ \E k \in 1..m : Settled(k)

NextDelNode ==
    \/ validateDelNode
    \/ drainStarts
    \/ drainReturns
    \/ forgetStarts
    \/ clusterForget
    \/ forgetVerdict
    \/ validateRemoval
    \/ Connect
    \/ SetSlotMigrating
    \/ SetSlotImporting
    \/ ClusterGetKeysInSlot
    \/ MigrateKey
    \/ SetSlotNodeSource
    \/ SetSlotNodeTarget
    \/ GetClusterNodes
    \/ UpdateNodeSlotOwnership
    \/ PropagationVerdict
    \/ NextSlot
    \/ Finish
    \/ rollbackResharding

SpecDelNode == InitDelNode /\ [][NextDelNode]_vars

\* ====================================================== connection manager
\* ClusterManager: the map nodes, its RWMutex nodesMu, goroutines calling
\* Connect, and the deferred Close.  Of the mutex the model keeps who reads,
\* and which writer has announced itself and waits for the readers to
\* leave or holds the lock.
managerWorkers == 1..NumWorkers
managerAddresses == 1..NumAddresses
noWorker == 0
noClient == 0

otherThanManager ==
    <<migrationVars, planner, addnode, create, join, delnode, loader, request,
      normalize>>

\* NewClusterManager, and goroutines that have not called Connect yet
NewClusterManager ==
    [pc |-> "open",
     nodes |-> [a \in managerAddresses |-> noClient],
     created |-> [a \in managerAddresses |-> 0],  \* redis.NewClient calls
     stores |-> [a \in managerAddresses |-> 0],   \* cm.nodes[address] = ..
     readers |-> {},
     writer |-> noWorker,
     calls |-> [w \in managerWorkers |->
                  [pc |-> "idle", address |-> 1, client |-> noClient,
                   locked |-> FALSE,   \* the call has asked for Lock
                   ret |-> noClient, err |-> FALSE, left |-> MaxCalls]],
     remaining |-> {},         \* Close: clients of the map not yet visited
     closed |-> {},            \* addresses whose client got its Close
     closeErr |-> FALSE]

\* the call returns: its result is kept until the goroutine calls again
connectReturns(call, client, err) ==
    [call EXCEPT !.pc = "idle", !.ret = client, !.err = err]

\* a goroutine calls Connect(address)
connectCall(w) ==
    /\ manager.pc = "open"
    /\ manager.calls[w].pc = "idle"
    /\ manager.calls[w].left > 0
    /\ \E address \in managerAddresses :
         manager' = [manager EXCEPT !.calls[w] =
                        [pc |-> "rlock", address |-> address,
                         client |-> noClient, locked |-> FALSE,
                         ret |-> noClient, err |-> FALSE,
                         left |-> @.left - 1]]
    /\ UNCHANGED otherThanManager

\* cm.nodesMu.RLock(): waits while a writer holds the mutex or waits for it
connectRLock(w) ==
    /\ manager.calls[w].pc = "rlock"
    /\ manager.writer = noWorker
    /\ manager' = [manager EXCEPT !.readers = @ \cup {w},
                                  !.calls[w].pc = "lookup"]
    /\ UNCHANGED otherThanManager

\* the first look into the map, and RUnlock
connectLookup(w) ==
    /\ manager.calls[w].pc = "lookup"
    /\ LET client == manager.nodes[manager.calls[w].address]
       IN  manager' =
              [manager EXCEPT
                  !.readers = @ \ {w},
                  !.calls[w] = IF client # noClient
                               THEN connectReturns(@, client, FALSE)
                               ELSE [@ EXCEPT !.pc = "lock"]]
    /\ UNCHANGED otherThanManager

\* cm.nodesMu.Lock(), first half: one writer at a time announces itself
connectLock(w) ==
    /\ manager.calls[w].pc = "lock"
    /\ manager.writer = noWorker
    /\ manager' = [manager EXCEPT !.writer = w,
                                  !.calls[w].locked = TRUE,
                                  !.calls[w].pc = "locking"]
    /\ UNCHANGED otherThanManager

\* cm.nodesMu.Lock(), second half: the readers have left
connectLocked(w) ==
    /\ manager.calls[w].pc = "locking"
    /\ manager.readers = {}
    /\ manager' = [manager EXCEPT !.calls[w].pc = "check"]
    /\ UNCHANGED otherThanManager

\* variant: the map is not looked at again under the write lock
doubleCheckSkipped(nodes, address) == FALSE

\* if client, exists := cm.nodes[address]; exists
doubleCheck(nodes, address) == nodes[address] # noClient

\* the second look under the write lock; a new client is made when the
\* address is still missing
connectDoubleCheck(w) ==
    /\ manager.calls[w].pc = "check"
    /\ LET address == manager.calls[w].address
       IN  manager' =
              IF doubleCheck(manager.nodes, address)
              THEN [manager EXCEPT
                       !.writer = noWorker,
                       !.calls[w] = connectReturns(@,
                                        manager.nodes[address], FALSE)]
              ELSE [manager EXCEPT
                       !.created[address] = @ + 1,
                       !.calls[w].client = manager.created[address] + 1,
                       !.calls[w].pc = "ping"]
    /\ UNCHANGED otherThanManager

\* client.Ping answers: the client is stored and returned, or the call
\* fails; the deferred Unlock runs in both cases
connectPing(w) ==
    /\ manager.calls[w].pc = "ping"
    /\ \E ok \in BOOLEAN :
         LET address == manager.calls[w].address
             client == manager.calls[w].client
         IN  manager' =
                IF ok
                THEN [manager EXCEPT
                         !.nodes[address] = client,
                         !.stores[address] = @ + 1,
                         !.writer = noWorker,
                         !.calls[w] = connectReturns(@, client, FALSE)]
                ELSE [manager EXCEPT
                         !.writer = noWorker,
                         !.calls[w] = connectReturns(@, noClient, TRUE)]
    /\ UNCHANGED otherThanManager

\* the command is over and no goroutine is inside Connect: Close takes
\* the write lock
closeLock ==
    /\ manager.pc = "open"
    /\ \A w \in managerWorkers : manager.calls[w].pc = "idle"
    /\ manager' = [manager EXCEPT
                      !.pc = "closing",
                      !.writer = NumWorkers + 1,
                      !.remaining = {a \in managerAddresses :
                                        manager.nodes[a] # noClient}]
    /\ UNCHANGED otherThanManager

\* one turn of the loop over the map, which hands out its entries in any
\* order: client.Close, and return at once when it fails
closeClient ==
    /\ manager.pc = "closing"
    /\ \E a \in manager.remaining, ok \in BOOLEAN :
         manager' =
            IF ok
            THEN [manager EXCEPT !.remaining = @ \ {a},
                                 !.closed = @ \cup {a}]
            ELSE [manager EXCEPT !.pc = "closed", !.closeErr = TRUE,
                                 !.closed = @ \cup {a},
                                 !.writer = noWorker]
    /\ UNCHANGED otherThanManager

\* every client was closed: the map is replaced by an empty one
closeReturns ==
    /\ manager.pc = "closing"
    /\ manager.remaining = {}
    /\ manager' = [manager EXCEPT
                      !.pc = "closed",
                      !.nodes = [a \in managerAddresses |-> noClient],
                      !.writer = noWorker]
    /\ UNCHANGED otherThanManager

InitManager ==
    /\ Settled(NumNodes)
    /\ planner = notRunning
    /\ addnode = notRunning
    /\ create = notRunning
    /\ join = notRunning
    /\ delnode = notRunning
    /\ loader = notRunning
    /\ request = notRunning
    /\ normalize = notRunning
    /\ manager = NewClusterManager

NextManager ==
    \/ \E w \in managerWorkers : connectCall(w)
    \/ \E w \in managerWorkers : connectRLock(w)
    \/ \E w \in managerWorkers : connectLookup(w)
    \/ \E w \in managerWorkers : connectLock(w)
    \/ \E w \in managerWorkers : connectLocked(w)
    \/ \E w \in managerWorkers : connectDoubleCheck(w)
    \/ \E w \in managerWorkers : connectPing(w)
    \/ closeLock
    \/ closeClient
    \/ closeReturns

SpecManager == InitManager /\ [][NextManager]_vars

\* ==================================================== address normalization
\* normalizeClusterAddress and parseNodeAddress on strings made of pieces:
\* a piece is a character, or one of the words the code compares with or
\* writes (localhost, 127.0.0.1), which hold neither ":" nor "@".
pieces == {"localhost", "h", ":", "@", "7", "-"}

RECURSIVE stringsUpTo(_)
stringsUpTo(n) ==
    IF n = 0 THEN {<<>>}
    ELSE LET shorter == stringsUpTo(n - 1)
         IN  shorter \cup {Append(x, c) : x \in shorter, c \in pieces}

\* strings.Index: the position of the first sep, 0 for Go's -1
Index(str, sep) ==
    LET found == {i \in 1..Len(str) : str[i] = sep}
    IN  IF found = {} THEN 0
        ELSE CHOOSE i \in found : \A j \in found : i <= j

\* strings.Split
RECURSIVE Split(_, _)
Split(str, sep) ==
    LET at == Index(str, sep)
    IN  IF at = 0 THEN <<str>>
        ELSE <<SubSeq(str, 1, at - 1)>>
                 \o Split(SubSeq(str, at + 1, Len(str)), sep)

\* strconv.Atoi returns no error: digits after an optional sign
Atoi(str) ==
    LET digits == IF str # <<>> /\ str[1] = "-" THEN Tail(str) ELSE str
    IN  /\ digits # <<>>
        /\ \A i \in 1..Len(digits) : digits[i] = "7"

\* variant: an empty host becomes the name, not the number
hostOrLocalName(host) ==
    IF host = <<>> THEN <<"localhost">>
    ELSE IF host = <<"localhost">> THEN <<"127.0.0.1">> ELSE host

\* if host == "" || host == "localhost" { host = "127.0.0.1" }
hostOrLocal(host) ==
    IF host = <<>> \/ host = <<"localhost">> THEN <<"127.0.0.1">>
    ELSE host

parseNodeAddress(address) ==
    LET parts == Split(address, ":")
    IN  IF Len(parts) # 2 \/ ~Atoi(parts[2])
        THEN [err |-> TRUE, host |-> <<>>, port |-> <<>>]
        ELSE [err |-> FALSE, host |-> hostOrLocal(parts[1]),
              port |-> parts[2]]

\* address[:idx] for the first "@"
withoutBusPort(address) ==
    IF Index(address, "@") # 0
    THEN SubSeq(address, 1, Index(address, "@") - 1)
    ELSE address

normalizeClusterAddress(address) ==
    LET parsed == parseNodeAddress(withoutBusPort(address))
    IN  IF parsed.err THEN withoutBusPort(address)
        ELSE parsed.host \o <<":">> \o parsed.port

otherThanNormalize ==
    <<migrationVars, planner, addnode, create, join, delnode, manager,
      loader, request>>

\* the function is applied to the input
normalizeOnce ==
    /\ normalize.pc = "input"
    /\ normalize' = [normalize EXCEPT
                        !.pc = "once",
                        !.once = normalizeClusterAddress(normalize.input)]
    /\ UNCHANGED otherThanNormalize

\* the function is applied to its own result
normalizeTwice ==
    /\ normalize.pc = "once"
    /\ normalize' = [normalize EXCEPT
                        !.pc = "twice",
                        !.twice = normalizeClusterAddress(normalize.once)]
    /\ UNCHANGED otherThanNormalize

InitNormalize ==
    /\ Settled(NumNodes)
    /\ planner = notRunning
    /\ addnode = notRunning
    /\ create = notRunning
    /\ join = notRunning
    /\ delnode = notRunning
    /\ manager = notRunning
    /\ loader = notRunning
    /\ request = notRunning
    /\ \E x \in stringsUpTo(MaxAddressLen) :
         normalize = [pc |-> "input", input |-> x, once |-> <<>>,
                      twice |-> <<>>]

NextNormalize ==
    \/ normalizeOnce
    \/ normalizeTwice

SpecNormalize == InitNormalize /\ [][NextNormalize]_vars

\* ============================================================= bulk loader
\* populateDataWithProgress: a producer puts the indices 1..TotalKeys on
\* workChan, the workers batch them, run each batch as one pipeline and
\* send a result per index on resultChan, a goroutine closes resultChan
\* after wg.Wait(), and the calling goroutine counts the results until
\* resultChan is closed.  TotalKeys, WorkerCount and batchSize are scaled
\* down; the capacities keep their relation to WorkerCount.
otherThanLoader ==
    <<migrationVars, planner, addnode, create, join, delnode, manager,
      normalize, request>>

loaderWorkers == 1..loader.WorkerCount
loaderKeys == 1..loader.TotalKeys

\* make(chan int, stats.WorkerCount*2)
workCapacity(WorkerCount) == WorkerCount * 2

\* make(chan PopulateResult, stats.WorkerCount)
resultCapacity(WorkerCount) == WorkerCount

PopulateResult(KeyIndex, Success) ==
    [KeyIndex |-> KeyIndex, Success |-> Success]

populateStart(TotalKeys, WorkerCount, size) ==
    [pc |-> "collecting",
     TotalKeys |-> TotalKeys,
     WorkerCount |-> WorkerCount,
     batchSize |-> size,
     i |-> 1,                  \* the producer's next index
     workChan |-> <<>>,
     workClosed |-> 0,         \* close(workChan) calls
     workers |-> [w \in 1..WorkerCount |->
                    [pc |-> "range", batch |-> <<>>, out |-> <<>>,
                     err |-> FALSE]],    \* Exec of the batch failed
     resultChan |-> <<>>,
     resultClosed |-> 0,       \* close(resultChan) calls
     completed |-> 0,
     errors |-> 0,
     \* history, kept for the properties
     taken |-> [k \in 1..TotalKeys |-> 0],      \* receives of k
     batches |-> [k \in 1..TotalKeys |-> 0],    \* pipelines holding k
     largest |-> 0,                             \* the largest pipeline
     sent |-> [k \in 1..TotalKeys |-> 0],       \* results sent for k
     failedWhole |-> FALSE,    \* a pipeline has failed as a whole
     okOfFailed |-> FALSE,     \* an index of one was sent as a success
     failuresSent |-> 0,       \* results sent with Success = false
     sentOnClosed |-> FALSE]   \* a result was sent on the closed channel

\* workChan <- i
produce ==
    /\ loader.pc # "off"
    /\ loader.i <= loader.TotalKeys
    /\ Len(loader.workChan) < workCapacity(loader.WorkerCount)
    /\ loader' = [loader EXCEPT !.workChan = Append(@, loader.i),
                                !.i = @ + 1]
    /\ UNCHANGED otherThanLoader

\* variant: the producer never gets to its deferred close
producerDoneNever(l) == FALSE

\* the producer's loop has ended
producerDone(l) == l.i > l.TotalKeys

\* defer close(workChan)
closeWorkChan ==
    /\ loader.pc # "off"
    /\ producerDone(loader)
    /\ loader.workClosed = 0
    /\ loader' = [loader EXCEPT !.workClosed = 1]
    /\ UNCHANGED otherThanLoader

\* variant: after a failed pipeline only its first index is reported
batchResultsFirstOnly(items, err, ok) ==
    IF err THEN <<PopulateResult(items[1], FALSE)>>
    ELSE [j \in 1..Len(items) |-> PopulateResult(items[j], ok[j])]

\* the results executeBatch sends: a failure for every index when Exec
\* returned an error, and each command's own outcome otherwise
batchResults(items, err, ok) ==
    IF err THEN [j \in 1..Len(items) |-> PopulateResult(items[j], FALSE)]
    ELSE [j \in 1..Len(items) |-> PopulateResult(items[j], ok[j])]

\* executeBatch up to its first send: the batch of worker w goes out as
\* one pipeline, which touches nothing the goroutines share
executeBatch(l, w, items, err, ok) ==
    [l EXCEPT
        !.workers[w].out = batchResults(items, err, ok),
        !.workers[w].batch = <<>>,
        !.workers[w].err = err,
        !.batches = [k \in 1..l.TotalKeys |->
                        IF \E j \in 1..Len(items) : items[j] = k
                        THEN @[k] + 1 ELSE @[k]],
        !.largest = IF Len(items) > @ THEN Len(items) ELSE @,
        !.failedWhole = @ \/ err]

\* for keyIndex := range workChan: one index is received and batched, and
\* a full batch is executed
workerReceives(w) ==
    /\ loader.pc # "off"
    /\ loader.workers[w].pc = "range"
    /\ loader.workers[w].out = <<>>
    /\ loader.workChan # <<>>
    /\ LET keyIndex == Head(loader.workChan)
           items == Append(loader.workers[w].batch, keyIndex)
           got == [loader EXCEPT !.workChan = Tail(@),
                                 !.taken[keyIndex] = @ + 1,
                                 !.workers[w].batch = items]
       IN  IF Len(items) >= loader.batchSize
           THEN \E err \in BOOLEAN, ok \in [1..Len(items) -> BOOLEAN] :
                   loader' = executeBatch(got, w, items, err, ok)
           ELSE loader' = got
    /\ UNCHANGED otherThanLoader

\* workChan is closed and empty: the loop ends, the rest is executed as a
\* last batch, or the worker returns and its deferred wg.Done() runs
workerLoopEnds(w) ==
    /\ loader.pc # "off"
    /\ loader.workers[w].pc = "range"
    /\ loader.workers[w].out = <<>>
    /\ loader.workChan = <<>>
    /\ loader.workClosed > 0
    /\ LET items == loader.workers[w].batch
       IN  IF items = <<>>
           THEN loader' = [loader EXCEPT !.workers[w].pc = "done"]
           ELSE \E err \in BOOLEAN, ok \in [1..Len(items) -> BOOLEAN] :
                   loader' = executeBatch(
                       [loader EXCEPT !.workers[w].pc = "last"],
                       w, items, err, ok)
    /\ UNCHANGED otherThanLoader

\* resultChan <- PopulateResult{...}; after the last send of the last
\* batch the worker returns and its deferred wg.Done() runs
workerSends(w) ==
    /\ loader.pc # "off"
    /\ loader.workers[w].out # <<>>
    /\ Len(loader.resultChan) < resultCapacity(loader.WorkerCount)
    /\ LET r == Head(loader.workers[w].out)
           rest == Tail(loader.workers[w].out)
       IN  loader' = [loader EXCEPT
                 !.resultChan = Append(@, r),
                 !.sent[r.KeyIndex] = @ + 1,
                 !.okOfFailed = @ \/ (loader.workers[w].err
                                          /\ r.Success),
                 !.failuresSent = IF r.Success THEN @ ELSE @ + 1,
                 !.sentOnClosed = @ \/ loader.resultClosed > 0,
                 !.workers[w].out = rest,
                 !.workers[w].err = @ /\ rest # <<>>,
                 !.workers[w].pc =
                     IF rest = <<>> /\ loader.workers[w].pc = "last"
                     THEN "done" ELSE loader.workers[w].pc]
    /\ UNCHANGED otherThanLoader

\* variant: the closing goroutine does not wait for the workers
waitGroupDoneAtOnce(l) == TRUE

\* wg.Wait() returns: every worker has run its wg.Done()
waitGroupDone(l) == \A w \in 1..l.WorkerCount : l.workers[w].pc = "done"

\* go func() { wg.Wait(); close(resultChan) }()
closeResultChan ==
    /\ loader.pc # "off"
    /\ loader.resultClosed = 0
    /\ waitGroupDone(loader)
    /\ loader' = [loader EXCEPT !.resultClosed = @ + 1]
    /\ UNCHANGED otherThanLoader

\* case result, ok := <-resultChan with ok
collect ==
    /\ loader.pc = "collecting"
    /\ loader.resultChan # <<>>
    /\ loader' = [loader EXCEPT
                      !.resultChan = Tail(@),
                      !.completed = IF Head(loader.resultChan).Success
                                    THEN @ + 1 ELSE @,
                      !.errors = IF Head(loader.resultChan).Success
                                 THEN @ ELSE @ + 1]
    /\ UNCHANGED otherThanLoader

\* the receive finds resultChan closed and empty: the loader returns
populateReturns ==
    /\ loader.pc = "collecting"
    /\ loader.resultChan = <<>>
    /\ loader.resultClosed > 0
    /\ loader' = [loader EXCEPT !.pc = "returned"]
    /\ UNCHANGED otherThanLoader

InitLoader ==
    /\ Settled(NumNodes)
    /\ planner = notRunning
    /\ addnode = notRunning
    /\ create = notRunning
    /\ join = notRunning
    /\ delnode = notRunning
    /\ manager = notRunning
    /\ normalize = notRunning
    /\ request = notRunning
    /\ \E TotalKeys \in 1..MaxTotalKeys :
       \E WorkerCount \in 1..MaxWorkerCount :
       \E size \in 1..MaxBatchSize :
          loader = populateStart(TotalKeys, WorkerCount, size)

NextLoader ==
    \/ produce
    \/ closeWorkChan
    \/ \E w \in loaderWorkers : workerReceives(w)
    \/ \E w \in loaderWorkers : workerLoopEnds(w)
    \/ \E w \in loaderWorkers : workerSends(w)
    \/ closeResultChan
    \/ collect
    \/ populateReturns

SpecLoader == InitLoader /\ [][NextLoader]_vars

\* the scheduler does not stop every goroutine for good: as long as some
\* goroutine can take a step, one is taken.  This asks less than fairness
\* to each goroutine.
SpecLoaderFair ==
    InitLoader /\ [][NextLoader]_vars /\ WF_vars(NextLoader)

\* ================================================================ claims
\* the owners of slot s: the primaries whose own table claims it
Owners(s) == {n \in Nodes : s \in OwnSlots(n)}

\* the last command issued belongs to the slot the command is working on
OnCurrentSlot ==
    /\ pc \notin {"idle", "connect", "finish"}
    /\ lastCmd.kind # "none"
    /\ lastCmd.slot = slot

\* a finished command that failed inside a slot move
FailedInMove ==
    /\ pc = "idle"
    /\ result = "failed"
    /\ failStep \notin {"none", "validate", "verify", "connect"}

C2_Original ==
    OnCurrentSlot =>
        /\ lastCmd.kind = "MIGRATING" =>
              /\ lastCmd.node = fromNodeID
              /\ okSteps \subseteq {"MIGRATING"}
        /\ lastCmd.kind = "IMPORTING" =>
              /\ lastCmd.node = toNodeID
              /\ "MIGRATING" \in okSteps
        /\ lastCmd.kind \in {"GETKEYS", "MIGRATE"} =>
              /\ lastCmd.node = fromNodeID
              /\ {"MIGRATING", "IMPORTING"} \subseteq okSteps
        /\ lastCmd.kind = "NODE" =>
              {"MIGRATING", "IMPORTING", "DRAINED"} \subseteq okSteps
        /\ ("NODE_DST" \in okSteps \/ failStep = "NODE_DST") =>
              "NODE_SRC" \in okSteps

\* C3 (as claimed): a move that aborts in MIGRATING, IMPORTING or the key
\* transfer leaves the slot owned by the source and no marker for it on
\* source or target.
C3_Original ==
    (FailedInMove
        /\ failStep \in {"MIGRATING", "IMPORTING", "GETKEYS", "MIGRATE"})
        => /\ view[fromNodeID][slot] = fromNodeID
           /\ slot \notin migrating[fromNodeID]
           /\ slot \notin importing[toNodeID]

\* C4 (as claimed): in every flow, when a slot counts as moved every member
\* other than source and target has been sent SETSLOT slot NODE target.
C4_Original ==
    (pc = "next") => (Nodes \ {fromNodeID, toNodeID}) \subseteq visited

\* C5: SETSLOT slot NODE is issued only after a key query on the source
\* returned no key, with every key of the earlier replies migrated: the
\* source holds no key of the slot.
C5_FinalizeOnlyWhenDrained ==
    (OnCurrentSlot /\ lastCmd.kind = "NODE")
        => /\ srcKeys = 0
           /\ batch = 0
           /\ "DRAINED" \in okSteps

\* a slot that held keys has been finalized
C5_Witness ==
    /\ OnCurrentSlot
    /\ lastCmd.kind = "NODE"
    /\ "KEYS" \in okSteps

\* C6: the slots of a batch are moved one after another: every earlier slot
\* of the running item is finalized (and, in reshard, recorded after its
\* propagation) before the running slot gets its first command, so at most
\* one slot of the command is in the MIGRATING/IMPORTING state.
C6_OneSlotInTransit ==
    /\ Cardinality(marked) <= 1
    /\ (pc \notin {"idle", "connect"}) =>
          /\ marked \subseteq {slot}
          /\ \A j \in 1..(idx - 1) :
                /\ <<plan[item].slots[j], toNodeID>> \in completed
                /\ flow = "reshard" => plan[item].slots[j] \in migratedSlots

\* the second slot of a batch is in transit
C6_Witness ==
    /\ pc \in {"getkeys", "migrate"}
    /\ idx = 2
    /\ marked = {slot}

\* C7 (as claimed): when a batch aborts, the slots reported as moved are
\* exactly the slots finalized on source and target before the failure
\* (the failing slot, named in the error, set aside).
C7_Original ==
    FailedInMove => reported = {p[1] : p \in completed} \ {slot}

\* C8: after a failed move nothing is migrated back: the failure handling
\* issues no command and changes no table or marker, and every slot moved
\* earlier in the command is still owned by its target.
C8_NoReverseMigration ==
    /\ [][(pc = "rollback") =>
             /\ UNCHANGED <<view, migrating, importing, lastCmd>>
             /\ pc' = "idle"]_vars
    /\ [](FailedInMove => \A p \in completed : view[p[2]][p[1]] = p[2])

\* a command failed after it had moved a slot
C8_Witness ==
    /\ FailedInMove
    /\ reported # {}
    /\ completed # {}

\* C9: a key's MIGRATE is attempted at most 3 times; another attempt is
\* pending only after a network error; any other error, or the third
\* network error, aborts the slot.
C9_MigrateRetry ==
    /\ attempts <= 3
    /\ (pc = "migrate" /\ lastErr # "none") => (lastErr = "net" /\ attempts < 3)
    /\ (lastErr = "other" \/ (lastErr = "net" /\ attempts >= 3))
          => pc \in {"rollback", "idle"}

\* the third network error of one key has aborted the slot
C9_Witness ==
    /\ pc = "rollback"
    /\ failStep = "MIGRATE"
    /\ lastErr = "net"
    /\ attempts = 3

\* C10: the propagation of a slot succeeds exactly when at least one node
\* accepted SETSLOT slot NODE target, and fails the command when none did.
C10_PropagationTolerance ==
    /\ (pc = "next" /\ Propagates(flow)) => accepted # {}
    /\ (failStep = "PROPAGATE" /\ pc \in {"rollback", "idle"}) =>
          /\ accepted = {}
          /\ pc = "idle" => result = "failed"

\* a propagation went through although a node refused
C10_Witness ==
    /\ pc = "next"
    /\ Propagates(flow)
    /\ accepted # {}
    /\ accepted # visited

\* C11: applying the plan never increases the largest deviation from the
\* ideal count: max|ci - I| after the plan is at most max|ci - I| before.
C11_PlanNeverWorsens ==
    planReturned => maxDeviation(slotsAfter) <= maxDeviation(slotsBefore)

\* a plan of two items has lowered the largest deviation
C11_Witness ==
    /\ planReturned
    /\ Len(planner.st.plan) >= 2
    /\ maxDeviation(slotsAfter) < maxDeviation(slotsBefore)

\* C12: the plan moves at most the total excess above the ideal count, and
\* from no master more than that master's excess.
C12_MovesAtMostExcess ==
    planReturned =>
        /\ totalMoved(planner.st.plan) <= totalExcess(PlanIDs)
        /\ \A id \in PlanIDs : movedFrom(id) <= excessOf(id)

\* a plan that leaves part of the excess where it is
C12_Witness ==
    /\ planReturned
    /\ totalMoved(planner.st.plan) > 0
    /\ totalMoved(planner.st.plan) < totalExcess(PlanIDs)

\* an iteration of the pairing loop has just added an item to the plan
pairingMadeItem == Len(planner.st.plan) > Len(planner.prev.plan)

\* C13 (as claimed): at every pairing step the donor is the master with the
\* largest current count, the receiver the master with the smallest current
\* count, and the step moves min(excess, deficit) slots.
C13_Original ==
    pairingMadeItem =>
        LET p == planner.prev
            d == p.donors[p.donorIdx]
            r == p.receivers[p.receiverIdx]
            item_ == planner.st.plan[Len(planner.st.plan)]
        IN  /\ item_.from = p.ids[d]
            /\ item_.to = p.ids[r]
            /\ \A i \in 1..PlanMasters :
                  /\ Len(p.slotsOf[i]) <= Len(p.slotsOf[d])
                  /\ Len(p.slotsOf[i]) >= Len(p.slotsOf[r])
            /\ Len(item_.slots) = Min(Len(p.slotsOf[d]) - p.ideal,
                                      p.ideal - Len(p.slotsOf[r]))

\* every slot of the slot space is assigned to a master
fullyCovered == \A s \in PlanSlotRange : planner.owner[s] # 0

\* C14 (as claimed): on a fully covered cluster whose imbalance is at or
\* above the default threshold, the imbalance recomputed after the whole
\* plan has been applied is below the threshold.
C14_Original ==
    (planReturned /\ fullyCovered /\ planner.st.plan # <<>>
        /\ ~belowThreshold(calculateImbalance(slotsBefore)))
        => belowThreshold(calculateImbalance(slotsAfter))

\* C15: a dry-run rebalance issues no command at all: when it returns, the
\* slot table and the markers of every node are what they were, and it has
\* returned right after showing the plan.
C15_DryRunChangesNothing ==
    /\ [][(flow' = "dryrun") =>
             /\ UNCHANGED <<view, migrating, importing>>
             /\ lastCmd' = NoCmd]_vars
    /\ [](flow = "dryrun" => pc = "idle")

\* a dry run has shown a plan that would move slots
C15_Witness ==
    /\ flow = "dryrun"
    /\ result = "ok"
    /\ plan # <<>>

\* the commands of kind op that add-node has sent
sentByAddNode(op) ==
    {i \in 1..Len(addnode.cmds) : addnode.cmds[i].op = op}

\* add-node got an ok for its CLUSTER MEET
meetSucceeded ==
    \E i \in sentByAddNode("MEET") : addnode.cmds[i].reply = "ok"

\* C16 (as claimed): a node is taken as not yet clustered, by add-node's
\* step 2 and by create's preflight, only if its cluster state was obtained
\* and is fail; otherwise the command stops before any MEET.
C16_Original ==
    /\ (addnode.pc # "off" /\ sentByAddNode("MEET") # {})
          => addnode.newClusterInfo = "fail"
    /\ (create.pc # "off" /\ create.cmds # <<>>)
          => \A i \in createNodes : create.nodeResults[i].info = "fail"

\* C17 (as claimed): add-node sends MEET to the new node N, and the address
\* the command names is that of the existing member E.
C17_Original ==
    addnode.pc # "off" =>
        \A i \in sentByAddNode("MEET") :
            /\ addnode.cmds[i].on = newNode
            /\ addnode.cmds[i].arg = existingNode

\* C18 (as claimed): REPLICATE is attempted at most 5 times, and an attempt
\* follows another one only if that one was answered "unknown node".
C18_Original ==
    addnode.pc # "off" =>
        /\ Cardinality(sentByAddNode("REPLICATE")) <= 5
        /\ \A i, j \in sentByAddNode("REPLICATE") :
              j = i + 1 => addnode.cmds[i].reply = "Unknown node"

\* the members of E's cluster that accept a connection
reachableMembers == ({existingNode} \cup otherNodes) \cap addnode.up

\* C19 (as claimed): when add-node fails after its MEET succeeded, RESET
\* HARD has been sent to N and FORGET N to every other reachable member,
\* and the error returned is the one of the failed step.
C19_Original ==
    (addNodeReturned /\ addnode.result = "err" /\ meetSucceeded) =>
        /\ \E i \in sentByAddNode("RESET HARD") :
              addnode.cmds[i].on = newNode
        /\ \A m \in reachableMembers :
              \E i \in sentByAddNode("FORGET") :
                 addnode.cmds[i].on = m /\ addnode.cmds[i].arg = newNode
        /\ addnode.err \in {"replicate", "cluster state", "not found",
                            "node id"}

\* C20 (as claimed): add-node returns success only if N was found in E's
\* view during the verification, by id or by address.
C20_Original ==
    (addNodeReturned /\ addnode.result = "ok") => addnode.addedNode

\* C21 (as claimed): the poll reports convergence whenever all polled nodes
\* hold the same membership and flags; views that differ only in the order
\* of their lines or in the myself and handshake flags have equal
\* signatures.
C21_Original ==
    (/\ join.pc = "done"
     /\ \A n \in polledNodes : ~join.replies[n].err
     /\ \A n, m \in polledNodes :
           membership(join.replies[n].nodes)
               = membership(join.replies[m].nodes))
    => /\ join.result = "converged"
       /\ \A n, m \in polledNodes :
             createClusterSignature(join.replies[n].nodes)
                 = createClusterSignature(join.replies[m].nodes)

\* del-node has looked at the node to remove
delNodeValidated == delnode.pc \notin {"off", "validate"}

\* no command of a slot move and no CLUSTER FORGET has been sent
nothingSent == ncmds = 0 /\ lastCmd = NoCmd /\ delnode.cmds = <<>>

\* C22 (as claimed): del-node of a primary in a cluster of exactly 3
\* primaries fails, before any SETSLOT, MIGRATE or FORGET.
C22_Original ==
    (/\ delNodeValidated
     /\ delnode.T \in delnode.masters
     /\ Cardinality(delnode.masters) = 3)
    => /\ delnode.pc = "done"
       /\ delnode.result = "err"
       /\ nothingSent

\* C23: del-node of a primary T with fewer than 2 other primaries ends with
\* an error, with or without slots on T, and no SETSLOT, MIGRATE or FORGET
\* has been sent.
C23_TooFewMastersRejected ==
    (/\ delNodeValidated
     /\ delnode.T \in delnode.masters
     /\ Cardinality(delnode.masters \ {delnode.T}) < 2)
    => /\ delnode.pc = "done"
       /\ delnode.result = "err"
       /\ nothingSent

\* a primary with slots and one other primary has been refused
C23_Witness ==
    /\ delnode.pc = "done"
    /\ delnode.err = "too few masters"
    /\ delnode.owned # {}
    /\ Cardinality(delnode.masters \ {delnode.T}) = 1

\* the drain of T has been planned
drainPlanned == delnode.pc \notin {"off", "validate", "reshard"}
                   /\ flow = "delnode"

\* the items of the plan that carry slot s
itemsWith(s) ==
    {g \in 1..Len(plan) : \E k \in 1..Len(plan[g].slots) :
                              plan[g].slots[k] = s}

\* C24: the drain hands every slot of T to exactly one other primary, the
\* shares of any two other primaries differ by at most 1, and after a
\* drain that succeeded source and target both give the slot to its target.
C24_DrainSharesEvenly ==
    drainPlanned =>
        LET others == delnode.masters \ {delnode.T}
        IN  /\ \A s \in delnode.owned :
                  /\ Cardinality(itemsWith(s)) = 1
                  /\ \A g \in itemsWith(s) :
                        /\ plan[g].to \in others
                        /\ result = "ok" =>
                              /\ view[plan[g].to][s] = plan[g].to
                              /\ view[delnode.T][s] = plan[g].to
            /\ \A g \in 1..Len(plan) :
                  \A k \in 1..Len(plan[g].slots) :
                     plan[g].slots[k] \in delnode.owned
            /\ \A a, b \in others :
                  Abs(slotsMoved(plan, "to", a) - slotsMoved(plan, "to", b))
                      <= 1

\* a drain of at least 2 slots into unequal shares has succeeded
C24_Witness ==
    /\ drainPlanned
    /\ result = "ok"
    /\ delnode.pc = "forget"
    /\ Cardinality(delnode.owned) >= 2
    /\ \E a, b \in delnode.masters \ {delnode.T} :
          slotsMoved(plan, "to", a) # slotsMoved(plan, "to", b)

\* the CLUSTER FORGET commands del-node has sent
forgetsSent == {i \in 1..Len(delnode.cmds) : delnode.cmds[i].op = "FORGET"}

forgetSucceeded == \E i \in forgetsSent : delnode.cmds[i].reply = "ok"

\* the fan-out has returned without an error, resp. with one
fanOutSucceeded ==
    \/ delnode.pc = "verify"
    \/ /\ delnode.pc = "done"
       /\ \/ delnode.result = "ok"
          \/ delnode.err \in {"verify", "still present"}
fanOutFailed == delnode.pc = "done" /\ delnode.err = "forget"

\* C25: FORGET T goes to every node of the view other than T and never to
\* T; the fan-out succeeds if and only if at least one FORGET succeeded,
\* and the command fails when none did.
C25_ForgetFanOut ==
    delnode.pc # "off" =>
        /\ \A i \in forgetsSent :
              /\ delnode.cmds[i].on # delnode.T
              /\ delnode.cmds[i].arg = delnode.T
        /\ fanOutSucceeded =>
              /\ {delnode.cmds[i].on : i \in forgetsSent}
                     = Nodes \ {delnode.T}
              /\ forgetSucceeded
        /\ fanOutFailed => ~forgetSucceeded
        /\ (delnode.pc = "done" /\ delnode.result = "ok")
              => forgetSucceeded

\* the fan-out went on after a node refused the command
C25_Witness ==
    /\ delnode.pc = "verify"
    /\ \E i \in forgetsSent : delnode.cmds[i].reply = "err"
    /\ forgetSucceeded

\* C26: FORGET is never sent for a primary that still owns slots: it
\* follows a drain in which every slot moved, and after a drain that
\* failed no FORGET is sent and every node still lists T.
C26_ForgetOnlyAfterDrain ==
    delnode.pc # "off" =>
        /\ forgetsSent # {} =>
              /\ \A s \in Slots : view[delnode.T][s] # delnode.T
              /\ delnode.owned # {} => result = "ok"
        /\ (flow = "delnode" /\ result = "failed") =>
              /\ forgetsSent = {}
              /\ delnode.listing = Nodes
              /\ delnode.pc \in {"moving", "done"}
              /\ delnode.pc = "done" => delnode.result = "err"

\* FORGET has been sent after the drain of a primary with slots
C26_Witness ==
    /\ forgetsSent # {}
    /\ delnode.owned # {}
    /\ delnode.T \in delnode.masters
    /\ result = "ok"

\* the slots of the k-th range create has assigned
rangeSize(k) == create.assigned[k].end - create.assigned[k].start + 1

\* min(a, b)
smaller(a, b) == IF a < b THEN a ELSE b

\* C27: with m primaries, the i-th range (i counted from 0) starts at the
\* sum of the earlier sizes and has floor(16384/m) slots, one more if
\* i < 16384 mod m; the ranges are pairwise disjoint, their sizes differ by
\* at most 1, and once every primary has its range they cover [0, 16384).
C27_SlotRanges ==
    create.pc # "off" =>
        LET m == Len(create.masters)
            got == 1..Len(create.assigned)
        IN  /\ \A k \in got :
                  /\ create.assigned[k].node = create.masters[k]
                  /\ rangeSize(k) = (16384 \div m)
                        + (IF k - 1 < 16384 % m THEN 1 ELSE 0)
                  /\ create.assigned[k].start = (k - 1) * (16384 \div m)
                        + smaller(k - 1, 16384 % m)
            /\ \A j, k \in got :
                  /\ j < k => create.assigned[j].end
                                 < create.assigned[k].start
                  /\ rangeSize(j) - rangeSize(k) \in {-1, 0, 1}
            /\ create.pc \in {"replicate", "verify"} =>
                  /\ Len(create.assigned) = m
                  /\ create.assigned[1].start = 0
                  /\ \A k \in got \ {1} : create.assigned[k].start
                        = create.assigned[k - 1].end + 1
                  /\ create.assigned[m].end = 16383

\* five primaries have their ranges, four of them with one slot more
C27_Witness ==
    /\ create.pc = "verify"
    /\ Len(create.assigned) = 5
    /\ rangeSize(4) = 3277
    /\ rangeSize(5) = 3276

\* the CLUSTER REPLICATE commands create has sent
replicatesSent ==
    {i \in 1..Len(create.cmds) : create.cmds[i].op = "REPLICATE"}

\* create runs with six addresses and --replicas 1
sixNodesOneReplica ==
    create.pc # "off" /\ create.n = 6 /\ create.replicas = 1

\* the primaries are a1, a2, a3 and the replicas a4, a5, a6 go to them in
\* turn
roundRobinLayout ==
    /\ create.masters = <<1, 2, 3>>
    /\ DOMAIN create.replicaMap = {4, 5, 6}
    /\ create.replicaMap[4] = 1
    /\ create.replicaMap[5] = 2
    /\ create.replicaMap[6] = 3
    /\ \A i \in replicatesSent :
          create.cmds[i].arg = create.cmds[i].on - 3
    /\ create.pc = "verify" =>
          /\ Len(create.assigned) = 3
          /\ {create.cmds[i].on : i \in replicatesSent} = {4, 5, 6}

\* the ranges assigned so far are the first ones of the given list
assignedAre(ranges) ==
    \A k \in 1..Len(create.assigned) :
        /\ k <= Len(ranges)
        /\ create.assigned[k] = [node |-> k, start |-> ranges[k][1],
                                 end |-> ranges[k][2]]

\* C28 as stated: with six addresses and --replicas 1 the primaries are
\* a1, a2, a3, the replicas a4, a5, a6 go to a1, a2, a3 in turn, and the
\* primaries get the slots [0,5460], [5461,10922] and [10923,16383].
C28_Original ==
    sixNodesOneReplica =>
        /\ roundRobinLayout
        /\ assignedAre(<<<<0, 5460>>, <<5461, 10922>>, <<10923, 16383>>>>)

\* C28, amended: the layout is as stated, and the one slot of the
\* remainder goes to the first primary: the ranges are [0,5461],
\* [5462,10922] and [10923,16383].
C28_SixNodesOneReplica ==
    sixNodesOneReplica =>
        /\ roundRobinLayout
        /\ assignedAre(<<<<0, 5461>>, <<5462, 10922>>, <<10923, 16383>>>>)

\* six addresses, one replica each: slots and replicas are all set
C28_Witness ==
    /\ create.pc = "verify"
    /\ create.n = 6
    /\ create.replicas = 1
    /\ Cardinality(replicatesSent) = 3

\* the positions of the commands create has sent with the given name
createSent(op) == {i \in 1..Len(create.cmds) : create.cmds[i].op = op}

\* the command create gave up on: the ADDSLOTS or REPLICATE that failed
failedAt ==
    {i \in createSent("ADDSLOTS") \cup createSent("REPLICATE") :
        create.cmds[i].reply = "err"}

\* the primaries that had their slots when create gave up
assignedMasters ==
    {create.cmds[i].on : i \in {j \in createSent("ADDSLOTS") :
                                    create.cmds[j].reply = "ok"}}

\* C29: when ADDSLOTS fails on a primary or REPLICATE on a replica, create
\* returns an error after a CLUSTER RESET HARD on every input address;
\* after a failed ADDSLOTS the primaries that already had their slots are
\* first sent CLUSTER RESET SOFT, and CLUSTER RESET HARD where that failed.
C29_FailureResetsEveryNode ==
    create.pc # "off" =>
        /\ failedAt # {} =>
              /\ create.pc = "done"
              /\ create.result = "err"
              /\ create.failed \in {"addslots", "replicate"}
        /\ \A f \in failedAt :
              LET last == Len(create.cmds)
                  soft == createSent("RESET SOFT")
              IN  /\ \A a \in createNodes :
                        /\ create.cmds[last - create.n + a].op
                              = "RESET HARD"
                        /\ create.cmds[last - create.n + a].on = a
                  /\ f <= last - create.n
                  /\ \A i \in soft : f < i /\ i <= last - create.n
                  /\ {create.cmds[i].on : i \in soft} =
                        IF create.cmds[f].op = "ADDSLOTS"
                        THEN assignedMasters ELSE {}
                  /\ \A i \in soft : create.cmds[i].reply = "err" =>
                        /\ create.cmds[i + 1].op = "RESET HARD"
                        /\ create.cmds[i + 1].on = create.cmds[i].on
                        /\ i + 1 <= last - create.n

\* ADDSLOTS failed on the third primary, and one of the two that had their
\* slots refused the soft reset
C29_Witness ==
    /\ create.pc = "done"
    /\ create.failed = "addslots"
    /\ Cardinality(assignedMasters) = 2
    /\ create.n > Len(create.masters)
    /\ \E i, j \in createSent("RESET SOFT") :
          create.cmds[i].reply = "err" /\ create.cmds[j].reply = "ok"

\* create has returned without an error
createSucceeded == create.pc = "done" /\ create.result = "ok"

\* C30 as stated: create returns success only if the final check found
\* the cluster state ok and all 16384 slots covered; with any other
\* outcome of the check the command fails.
C30_Original ==
    (create.pc # "off" /\ createSucceeded) => create.coverage = "full"

\* the addresses whose worker reported a failure
failingAddresses ==
    {create.nodeResults[i].index :
        i \in {j \in createNodes : /\ create.nodeResults[j].index # 0
                                    /\ ~create.nodeResults[j].success}}

\* C31: in whatever order the workers of the preflight finish, their
\* results are kept and printed in input order, and the error returned is
\* that of the failing address with the lowest index.
C31_PreflightInInputOrder ==
    create.pc # "off" =>
        /\ \A i \in createNodes : create.nodeResults[i].index \in {0, i}
        /\ \A i \in 1..Len(create.printed) : create.printed[i] = i
        /\ create.pc # "preflight" =>
              /\ \A i \in createNodes : create.nodeResults[i].index = i
              /\ failingAddresses = {} =>
                    /\ Len(create.printed) = create.n
                    /\ create.failed # "preflight"
              /\ failingAddresses # {} =>
                    /\ create.pc = "done"
                    /\ create.result = "err"
                    /\ create.err \in failingAddresses
                    /\ \A j \in failingAddresses : create.err <= j
                    /\ Len(create.printed) = create.err

\* the second and the third address failed: two lines were printed and the
\* error is that of the second
C31_Witness ==
    /\ create.pc = "done"
    /\ create.failed = "preflight"
    /\ failingAddresses = {2, 3}
    /\ create.err = 2
    /\ create.printed = <<1, 2>>

\* the goroutines between the second look into the map and the Unlock
insideCreateAndStore ==
    {w \in managerWorkers : manager.calls[w].pc \in {"check", "ping"}}

\* the goroutines whose Connect has returned a client
served ==
    {w \in managerWorkers : /\ manager.calls[w].pc = "idle"
                            /\ manager.calls[w].ret # noClient}

\* C32: however concurrent Connect calls interleave, at most one client
\* is ever stored for an address, every caller for the address gets that
\* client, and no two goroutines are in the create-and-store section at
\* the same time.
C32_OneClientPerAddress ==
    manager.pc = "open" =>
        /\ \A a \in managerAddresses :
              /\ manager.stores[a] <= 1
              /\ manager.nodes[a] = noClient <=> manager.stores[a] = 0
        /\ \A w \in served :
              manager.calls[w].ret = manager.nodes[manager.calls[w].address]
        /\ \A v, w \in served :
              manager.calls[v].address = manager.calls[w].address
                  => manager.calls[v].ret = manager.calls[w].ret
        /\ Cardinality(insideCreateAndStore) <= 1
        /\ insideCreateAndStore \subseteq {manager.writer}
        /\ insideCreateAndStore # {} => manager.readers = {}

\* two goroutines missed the same address in their first look; one made
\* the client and the other found it in its second look
C32_Witness ==
    /\ manager.pc = "open"
    /\ served = {1, 2}
    /\ manager.calls[1].address = manager.calls[2].address
    /\ manager.created[manager.calls[1].address] = 1
    /\ manager.calls[1].ret = manager.calls[2].ret
    /\ manager.calls[1].locked
    /\ manager.calls[2].locked

\* C33 as stated: while a goroutine waits for the answer to the Ping of
\* its Connect, a Connect for another address that has just been called
\* can go on: its first step, the read lock, does not wait for the Ping.
C33_Original ==
    manager.pc = "open" =>
        \A w, v \in managerWorkers :
            (/\ manager.calls[w].pc = "ping"
             /\ manager.calls[v].pc = "rlock"
             /\ manager.calls[v].address # manager.calls[w].address)
                => ENABLED connectRLock(v)

\* C34 as stated: when Close has returned, with or without an error of a
\* client's Close, every client that was in the map has been closed and
\* the map is empty.
C34_Original ==
    manager.pc = "closed" =>
        /\ \A a \in managerAddresses :
              manager.stores[a] > 0 => a \in manager.closed
        /\ \A a \in managerAddresses : manager.nodes[a] = noClient

\* the part of the input before its first "@"
beforeBus == withoutBusPort(normalize.input)

\* the positions of the colons in that part
colons == {i \in 1..Len(beforeBus) : beforeBus[i] = ":"}

\* that part is host:port with a port strconv.Atoi accepts
wellFormed ==
    /\ Cardinality(colons) = 1
    /\ \E i \in colons : Atoi(SubSeq(beforeBus, i + 1, Len(beforeBus)))

\* C35: normalization is idempotent on every string; a well-formed input
\* loses its "@busport" and has the host localhost, or an empty host,
\* replaced by 127.0.0.1; an input without exactly one colon or with a
\* port that is no number comes back with only the "@busport" removed.
C35_NormalizeIdempotent ==
    /\ normalize.pc = "twice" => normalize.twice = normalize.once
    /\ normalize.pc \in {"once", "twice"} =>
          /\ \A i \in 1..Len(normalize.once) : normalize.once[i] # "@"
          /\ ~wellFormed => normalize.once = beforeBus
          /\ wellFormed =>
                \E i \in colons :
                   LET host == SubSeq(beforeBus, 1, i - 1)
                       rest == SubSeq(beforeBus, i, Len(beforeBus))
                   IN  normalize.once =
                          IF host \in {<<>>, <<"localhost">>}
                          THEN <<"127.0.0.1">> \o rest
                          ELSE beforeBus

\* localhost:7@7 has become 127.0.0.1:7 and stays so
C35_Witness ==
    /\ normalize.pc = "twice"
    /\ normalize.input = <<"localhost", ":", "7", "@", "7">>
    /\ normalize.once = <<"127.0.0.1", ":", "7">>
    /\ normalize.twice = normalize.once

\* C36: the result channel of the bulk loader is closed exactly once, only
\* after every worker has signalled done, and no worker sends on it after
\* it has been closed.
C36_ResultChanClosedOnce ==
    loader.pc # "off" =>
        /\ loader.resultClosed <= 1
        /\ loader.resultClosed = 1 =>
              \A w \in loaderWorkers :
                 /\ loader.workers[w].pc = "done"
                 /\ loader.workers[w].out = <<>>
        /\ ~loader.sentOnClosed
        /\ loader.pc = "returned" => loader.resultClosed = 1

\* two workers have sent their results and returned; the channel has been
\* closed with a result still in it
C36_Witness ==
    /\ loader.pc = "collecting"
    /\ loader.WorkerCount = 2
    /\ loader.resultClosed = 1
    /\ loader.resultChan # <<>>
    /\ \A k \in loaderKeys : loader.sent[k] = 1

\* the indices whose result has been sent
resultsSent == {k \in loaderKeys : loader.sent[k] > 0}

\* the failures sent and not yet received
failuresWaiting ==
    {j \in 1..Len(loader.resultChan) : ~loader.resultChan[j].Success}

C40_LoaderTerminates == <>(loader.pc = "returned")

\* the loader has returned from a run with more indices than either
\* channel holds
C40_Witness ==
    /\ loader.pc = "returned"
    /\ loader.TotalKeys > workCapacity(loader.WorkerCount)
    /\ loader.TotalKeys > resultCapacity(loader.WorkerCount)
    /\ loader.completed + loader.errors = loader.TotalKeys

\* the slots the running command has finalized on source and on target
movedSlots == {p[1] : p \in completed}

\* C38: reshard is accepted only if k > 0, the cluster state is ok, source
\* and target exist, carry the master flag and differ, and k is at most the
\* source's slot count; an accepted reshard plans exactly k slots, all owned
\* by the source at the start, and one that succeeded has moved exactly
\* those; a refused one returns before any cluster command is issued.
C38_ReshardMovesRequested ==
    /\ request.pc = "accepted" =>
          /\ request.slots > 0
          /\ request.info = "ok"
          /\ request.from \in Nodes
          /\ request.to \in Nodes
          /\ isMasterNode(request.fromFlags)
          /\ isMasterNode(request.toFlags)
          /\ request.from # request.to
          /\ request.slots <= Cardinality(request.owned)
          /\ flow = "reshard"
          /\ Len(plan) = 1
          /\ plan[1].from = request.from
          /\ plan[1].to = request.to
          /\ Len(plan[1].slots) = request.slots
          /\ Cardinality(Range(plan[1].slots)) = request.slots
          /\ Range(plan[1].slots) \subseteq request.owned
          /\ (pc = "idle" /\ result = "ok") =>
                /\ movedSlots = Range(plan[1].slots)
                /\ OwnSlots(request.from) \cap movedSlots = {}
                /\ movedSlots \subseteq OwnSlots(request.to)
    /\ request.pc = "refused" =>
          /\ pc = "idle"
          /\ flow = "none"
          /\ result = "failed"
          /\ lastCmd = NoCmd
          /\ marked = {}
          /\ completed = {}

\* a reshard asked for every slot of a source holding several, succeeded
\* and left the source with none
C38_Witness ==
    /\ request.pc = "accepted"
    /\ request.slots = Cardinality(request.owned)
    /\ request.slots > 1
    /\ pc = "idle"
    /\ result = "ok"
    /\ OwnSlots(request.from) = {}

\* C39 (as claimed): rebalance refuses to run while a slot migration is in
\* progress: when a node line carries a migrating or importing marker the
\* safety validation fails and no plan is generated or executed.
C39_Original ==
    request.pc = "validated" => ~request.inProgress

====
